---- MODULE Spec2Model ----
(***************************************************************************)
(* Model of the myagv vehicle client: the YDLidar serial driver            *)
(* (client/lidar_driver.py), the control loop with its safety interlock    *)
(* (client/agv_client.py), the motor controllers                           *)
(* (client/motor_controller.py, deploy_agv/motor_controller.py) and the    *)
(* sector query of the lidar monitor (client/check_front_dist.py).         *)
(*                                                                         *)
(* Units.  A stored distance is the raw 16-bit sample, i.e. quarter        *)
(* millimetres (the code divides by 4.0); a threshold of m millimetres is  *)
(* Mm(m).  An angle is the exact fraction num/den of a degree.  Elapsed    *)
(* time is counted in seconds and saturates at MaxElapsed.                 *)
(***************************************************************************)
EXTENDS Integers, Sequences, FiniteSets, TLC

VARIABLES
    \* ---- LidarDriver object (client/lidar_driver.py)
    ser,            \* "None" | "open"            self.ser
    running,        \* BOOLEAN                    self.running
    scanning,       \* BOOLEAN                    self.scanning
    latest_scan,    \* [bucket -> distance]       self.latest_scan
    thread,         \* "None" | "alive" | "dead"  self.thread
    \* ---- _update_loop thread
    tpc,            \* position of the read loop
    header,         \* number of header bytes matched so far (0 or 1)
    elapsed,        \* time.time() - last_packet_time, saturating
    recLog,         \* serial operations of the current / last stall recovery
    lastCtl,        \* last scanner control command written to the port
    discarded,      \* raw samples of the packet just decoded that were not
                    \* appended to packet_points
    line,           \* what the serial line delivers in this run:
                    \*   "silent"  nothing, every read times out
                    \*   "front"   well-formed frames of the forward direction,
                    \*             without delay
                    \*   "any"     any bytes, short reads and delays
    \* ---- stop() in progress
    spc,            \* position inside LidarDriver.stop
    \* ---- caller of the driver / control loop (run_agv_client, __main__)
    cpc,            \* position of the main flow
    iter,           \* number of frames sent so far
    snap,           \* lidar.get_latest_scan() of the current iteration
    proposed,       \* the command decoded from the response (before the veto)
    handed,         \* the command_data handed to motor.execute_command
    respReq,        \* the request the executed response was produced for
    inbox,          \* responses queued on the websocket, oldest first
    answered,       \* number of frames the backend has answered
    connClosed,     \* the backend closed the connection
    exitCause,      \* why the control loop was left
    shutdownLog,    \* the steps of the finally block, in order
    \* ---- MotorController
    variant,        \* "client" | "deploy"
    mock,           \* self.mock
    epc,            \* per caller: "idle" | "sleeping" (in time.sleep(duration))
    ecmd,           \* per caller: cmd_data of its current or last execute_command
    ecalls,         \* per caller: the self.agv calls of that execute_command
    execs,          \* per caller: number of execute_command calls made
    agvCalls,       \* calls made on self.agv, in order: [op, speed]
    \* ---- _parse_next_packet on a given byte stream
    rx,             \* bytes waiting in the serial input buffer, oldest first
    parsed,         \* what the calls of _parse_next_packet returned, in order
    sent,           \* what the device put on the line for those calls
    \* ---- self.lock, the merge of a packet, and the snapshots handed out
    lock,           \* "free" | "loop" : who holds self.lock
    packet,         \* points of the packet being merged
    pending,        \* those of them not yet written to self.latest_scan
    copies,         \* per reader: the dict get_latest_scan returned to it
    written,        \* the live map as the read loop alone wrote it
    \* ---- get_sector_info (client/check_front_dist.py)
    query,          \* the arguments of the call: scan, center_angle, width
    sector,         \* what the call returned: <<min_d, min_a>>
    \* ---- the duration wait of execute_command next to the read loop
    asleep,         \* the live map as it was when the wait in progress began
    \* ---- the deployment client (deploy_agv/agv_client.py)
    attempts        \* number of websockets.connect calls made so far

drvVars == <<ser, running, scanning, latest_scan, thread, spc>>
decVars == <<rx, parsed, sent>>
mapVars == <<lock, packet, pending, copies, written>>
secVars == <<query, sector>>
waitVars == <<asleep>>
depVars == <<attempts>>
unitVars == <<decVars, mapVars, secVars, waitVars, depVars>>
thrVars == <<tpc, header, elapsed, recLog, lastCtl, discarded, line, unitVars>>
ctlVars == <<cpc, iter, snap, proposed, handed, respReq, inbox, answered,
              connClosed, exitCause, shutdownLog>>
motVars == <<variant, mock, epc, ecmd, ecalls, execs, agvCalls>>
vars == <<drvVars, thrVars, ctlVars, motVars>>

----------------------------------------------------------------------------
(* Bounds of the model *)

\* the control loop sends at most MaxIter frames
MaxIter == 2
\* elapsed time since the last packet saturates here
MaxElapsed == 4
\* a packet carries at most MaxLs samples
MaxLs == 2
\* each caller of the motor harness makes at most MaxExec calls
MaxExec == 1

(* Program constants *)

\* seconds without a packet before the stall reset
StallTimeout == 2
\* serial read timeout, seconds
ReadTimeout == 1
\* raw sample units per millimetre
DistScale == 4
\* angle code units per degree (after >> 1)
AngleScale == 64
\* decoder noise floor, mm
MinValidRange == 10
\* process_lidar_data lower limit, mm
CleanMin == 100
\* process_lidar_data upper limit, mm
CleanMax == 8000
\* check_safety default safety_dist, mm
SafetyDist == 150
\* check_safety: ang < 30
FrontLow == 30
\* check_safety: ang > 330
FrontHigh == 330
\* degrees of a full turn
FullCircle == 360

Mm(m) == DistScale * m

Min(a, b) == IF a < b THEN a ELSE b

\* Bytes the header search distinguishes: 0xAA, 0x55, anything else
Bytes == {170, 85, 0}

\* Angle codes on the wire (FSA / LSA): 0 and 180 degrees
AngleCodes == {0, 23040}

\* the angle codes the line delivers
WireAngles(ln) == IF ln = "front" THEN {0} ELSE AngleCodes

\* Raw samples on the wire: 10 mm, 100 mm, 120 mm
RawSamples == {40, 400, 480}

\* Raw samples of a line that delivers anything: 10 mm, 100 mm, 10000 mm
AnySamples == {40, 400, 40000}

\* the samples the line delivers
WireSamples(ln) == IF ln = "any" THEN AnySamples ELSE RawSamples

\* the bytes a read(1) of the header search can return
HeaderBytes(ln, h) ==
    IF ln = "front" THEN (IF h = 0 THEN {170} ELSE {85}) ELSE Bytes

\* the time a read that returns data can take, in seconds
Delays(ln) == IF ln = "front" THEN {0} ELSE {0, 1}

\* whether a write to the port can fail (a device that went away)
CanFailWrite(ln) == ln \in {"silent", "any"}

\* whether a read or a flush on the open port can raise
CanFailRead(ln) == ln = "any"

CanTimeOut(ln) == ln \in {"silent", "any"}
CanDeliver(ln) == ln \in {"front", "any"}

SampleCounts == 0..MaxLs

EmptyScan == [a \in {} |-> 0]

----------------------------------------------------------------------------
(* PacketDecoder: the arithmetic of _parse_next_packet after the reads *)

\* angle_fsa = (fsa >> 1) / 64.0, kept as the numerator over AngleScale
AngleNum(code) == code \div 2

\* the span without the correction for a packet that crosses 0 degrees
Diff_NoWrap(fsa, lsa) == AngleNum(lsa) - AngleNum(fsa)

\* diff = angle_lsa - angle_fsa; if diff < 0: diff += 360
Diff(fsa, lsa) ==
    LET d == AngleNum(lsa) - AngleNum(fsa)
    IN  IF d < 0 THEN d + FullCircle * AngleScale ELSE d

\* the i-th sample (i from 0) of a packet, as [num, den, dist]:
\* angle = num/den degrees, with one subtraction of 360 when angle >= 360
PacketPoint(ls, fsa, lsa, raw, i) ==
    LET den == IF ls > 1 THEN AngleScale * (ls - 1) ELSE AngleScale
        n0  == IF ls > 1
               THEN AngleNum(fsa) * (ls - 1) + Diff(fsa, lsa) * i
               ELSE AngleNum(fsa)
        n1  == IF n0 >= FullCircle * den THEN n0 - FullCircle * den ELSE n0
    IN  [num |-> n1, den |-> den, dist |-> raw]

\* a decoder that keeps the samples at the noise floor
ParsePacket_KeepFloor(ls, fsa, lsa, raw_data) ==
    SelectSeq([i \in 1..ls |-> PacketPoint(ls, fsa, lsa, raw_data[i], i - 1)],
              LAMBDA p : p.dist >= Mm(MinValidRange))

\* packet_points: the samples above the noise floor, in sample order
ParsePacket(ls, fsa, lsa, raw_data) ==
    SelectSeq([i \in 1..ls |-> PacketPoint(ls, fsa, lsa, raw_data[i], i - 1)],
              LAMBDA p : p.dist > Mm(MinValidRange))

\* int(ang) for a non-negative angle
Bucket(p) == p.num \div p.den

\* for ang, dist in points: if dist > 0: latest_scan[int(ang)] = dist
RECURSIVE Ingest(_, _)
Ingest(scan, points) ==
    IF points = <<>> THEN scan
    ELSE LET p == Head(points)
             s == IF p.dist > 0
                  THEN [a \in DOMAIN scan \cup {Bucket(p)} |->
                           IF a = Bucket(p) THEN p.dist ELSE scan[a]]
                  ELSE scan
         IN  Ingest(s, Tail(points))

\* elapsed time after d more seconds, saturating
Advance(e, d) == Min(e + d, MaxElapsed)

----------------------------------------------------------------------------
(* LidarDriver.start / connect / _send_start_cmd, called before the thread  *)
(* exists.  opened: whether serial.Serial(...) succeeded.                   *)

LidarStart(opened) ==
    /\ ser = "None"
    /\ IF opened
       THEN /\ ser' = "open"
            /\ running' = TRUE
            /\ lastCtl' = "enable"
            /\ scanning' = TRUE
            /\ thread' = "alive"
            /\ tpc' = "top"
            /\ elapsed' = 0
       ELSE \* connect() returned False: start() returns None, nothing raised
            UNCHANGED <<ser, running, lastCtl, scanning, thread, tpc, elapsed>>
    /\ UNCHANGED <<latest_scan, header, recLog, spc, line, unitVars, discarded>>

----------------------------------------------------------------------------
(* LidarDriver._update_loop, one action per serial operation *)

\* the stall test that follows every return of _parse_next_packet
AfterParse(e) ==
    IF e > StallTimeout
    THEN /\ tpc' = "rec_stop"
         /\ recLog' = <<>>
    ELSE /\ tpc' = "top"
         /\ UNCHANGED recLog

\* while self.running and self.ser:
LoopTop ==
    /\ UNCHANGED <<ctlVars, motVars>>
    /\ thread = "alive" /\ tpc = "top"
    /\ IF running /\ ser = "open"
       THEN /\ tpc' = "hdr"
            /\ header' = 0
            /\ UNCHANGED thread
       ELSE /\ tpc' = "dead"
            /\ thread' = "dead"
            /\ UNCHANGED header
    /\ discarded' = {}
    /\ UNCHANGED <<ser, running, scanning, latest_scan, spc, elapsed, recLog,
                   lastCtl, line, unitVars>>

\* a header search that starts over on every byte that is not 0x55
HeaderNext_ResetOnAA(h, b) ==
    IF h = 0 THEN (IF b = 170 THEN 1 ELSE 0)
    ELSE IF b = 85 THEN 2
    ELSE 0

\* the header automaton of _parse_next_packet: the next value of len(header)
HeaderNext(h, b) ==
    IF h = 0 THEN (IF b = 170 THEN 1 ELSE 0)
    ELSE IF b = 85 THEN 2
    ELSE IF b = 170 THEN 1
    ELSE 0

\* b = self.ser.read(1) inside the header search
ReadHeaderByte ==
    /\ UNCHANGED <<ctlVars, motVars>>
    /\ thread = "alive" /\ tpc = "hdr"
    /\ \/ /\ ser # "open" \/ CanFailRead(line)   \* the read raises
          /\ tpc' = "exc"
          /\ UNCHANGED <<header, elapsed, recLog>>
       \/ /\ ser = "open"                  \* timeout: if not b: return None
          /\ CanTimeOut(line)
          /\ elapsed' = Advance(elapsed, ReadTimeout)
          /\ AfterParse(elapsed')
          /\ UNCHANGED header
       \/ /\ ser = "open"
          /\ CanDeliver(line)
          /\ \E b \in HeaderBytes(line, header), dt \in Delays(line) :
               /\ elapsed' = Advance(elapsed, dt)
               /\ IF HeaderNext(header, b) = 2
                  THEN tpc' = "body" /\ header' = 0
                  ELSE tpc' = "hdr" /\ header' = HeaderNext(header, b)
          /\ UNCHANGED recLog
    /\ UNCHANGED <<ser, running, scanning, latest_scan, thread, spc, lastCtl, line, unitVars, discarded>>

\* read(2), read(6), read(2 * ls), the decode, the merge under the lock
ReadBody ==
    /\ UNCHANGED <<ctlVars, motVars>>
    /\ thread = "alive" /\ tpc = "body"
    /\ \/ /\ ser # "open" \/ CanFailRead(line)   \* a read raises
          /\ tpc' = "exc"
          /\ UNCHANGED <<elapsed, recLog, latest_scan, discarded>>
       \/ /\ ser = "open"                  \* a short read: return None
          /\ CanTimeOut(line)
          /\ elapsed' = Advance(elapsed, ReadTimeout)
          /\ AfterParse(elapsed')
          /\ UNCHANGED <<latest_scan, discarded>>
       \/ /\ ser = "open"
          /\ CanDeliver(line)
          \* the packets of this line span one direction (LSA = FSA); spans
          \* and the wrap are decoded byte by byte in ParseNextPacket
          /\ \E ls \in SampleCounts, fsa \in WireAngles(line) :
              \E raw_data \in [1..ls -> WireSamples(line)] :
                LET points == ParsePacket(ls, fsa, fsa, raw_data)
                IN  /\ discarded' =
                         {raw_data[i] : i \in 1..ls} \
                           {points[i].dist : i \in DOMAIN points}
                    /\ IF points # <<>>
                       THEN /\ elapsed' = 0
                            /\ latest_scan' = Ingest(latest_scan, points)
                            /\ AfterParse(elapsed')
                       ELSE /\ \E dt \in Delays(line) :
                                 elapsed' = Advance(elapsed, dt)
                            /\ UNCHANGED latest_scan
                            /\ AfterParse(elapsed')
    /\ UNCHANGED <<ser, running, scanning, thread, spc, header, lastCtl, line,
                   unitVars>>

\* self._send_stop_cmd() of the stall recovery
RecoverStop ==
    /\ UNCHANGED <<ctlVars, motVars>>
    /\ thread = "alive" /\ tpc = "rec_stop"
    /\ \/ /\ ser = "open"
          /\ lastCtl' = "disable"
          /\ scanning' = FALSE
          /\ recLog' = Append(recLog, "disable")
       \/ /\ ser # "open" \/ CanFailWrite(line)   \* no port, or the write
          /\ UNCHANGED <<lastCtl, scanning, recLog>>   \* raises: swallowed
    /\ tpc' = "rec_sleep"
    /\ UNCHANGED <<ser, running, latest_scan, thread, spc, header, elapsed, line, unitVars, discarded>>

\* time.sleep(0.5)
RecoverSleep ==
    /\ UNCHANGED <<ctlVars, motVars>>
    /\ thread = "alive" /\ tpc = "rec_sleep"
    /\ recLog' = Append(recLog, "pause")
    /\ tpc' = "rec_flush"
    /\ UNCHANGED <<drvVars, header, elapsed, lastCtl, line, unitVars, discarded>>

\* a recovery that empties self.latest_scan together with the input buffer
RecoverFlush_ClearsMap ==
    /\ UNCHANGED <<ctlVars, motVars>>
    /\ thread = "alive" /\ tpc = "rec_flush"
    /\ \/ /\ ser = "open"
          /\ tpc' = "rec_start" /\ recLog' = Append(recLog, "flush")
          /\ latest_scan' = EmptyScan
       \/ /\ ser # "open" \/ CanFailRead(line)
          /\ tpc' = "exc" /\ UNCHANGED <<recLog, latest_scan>>
    /\ UNCHANGED <<ser, running, scanning, thread, spc, header, elapsed,
                   lastCtl, line, unitVars, discarded>>

\* self.ser.reset_input_buffer()
RecoverFlush ==
    /\ UNCHANGED <<ctlVars, motVars>>
    /\ thread = "alive" /\ tpc = "rec_flush"
    /\ \/ /\ ser = "open"
          /\ tpc' = "rec_start" /\ recLog' = Append(recLog, "flush")
       \/ /\ ser # "open" \/ CanFailRead(line)   \* the call raises
          /\ tpc' = "exc" /\ UNCHANGED recLog
    /\ UNCHANGED <<drvVars, header, elapsed, lastCtl, line, unitVars, discarded>>

\* self._send_start_cmd(); last_packet_time = time.time()
RecoverStart ==
    /\ UNCHANGED <<ctlVars, motVars>>
    /\ thread = "alive" /\ tpc = "rec_start"
    /\ \/ /\ ser = "open"
          /\ lastCtl' = "enable"
          /\ scanning' = TRUE
          /\ recLog' = Append(recLog, "enable")
       \/ /\ ser # "open" \/ CanFailWrite(line)   \* no port, or the write
          /\ UNCHANGED <<lastCtl, scanning, recLog>>   \* raises: caught
    /\ elapsed' = 0
    /\ tpc' = "top"
    /\ UNCHANGED <<ser, running, latest_scan, thread, spc, header, line, unitVars, discarded>>

\* a read loop without the except clause: the exception ends the thread
LoopExcept_Propagates ==
    /\ UNCHANGED <<ctlVars, motVars>>
    /\ thread = "alive" /\ tpc = "exc"
    /\ tpc' = "dead"
    /\ thread' = "dead"
    /\ UNCHANGED <<ser, running, scanning, latest_scan, spc, header, elapsed,
                   recLog, lastCtl, line, unitVars, discarded>>

\* except Exception: time.sleep(0.1)
LoopExcept ==
    /\ UNCHANGED <<ctlVars, motVars>>
    /\ thread = "alive" /\ tpc = "exc"
    /\ tpc' = "top"
    /\ UNCHANGED <<drvVars, header, elapsed, recLog, lastCtl, line, unitVars, discarded>>

UpdateLoop ==
    \/ LoopTop \/ ReadHeaderByte \/ ReadBody
    \/ RecoverStop \/ RecoverSleep \/ RecoverFlush \/ RecoverStart
    \/ LoopExcept

----------------------------------------------------------------------------
(* LidarDriver.stop, one action per step; the caller sits in it while      *)
(* spc is not "idle" and leaves when spc = "done".                         *)

\* self.running = False
StopSignal ==
    /\ spc = "idle"
    /\ running' = FALSE
    /\ spc' = IF thread = "None" THEN "cmd" ELSE "join"
    /\ UNCHANGED <<ser, scanning, latest_scan, thread, thrVars>>

\* self.thread.join(timeout=2): the thread has ended, or the timeout expired
StopJoin ==
    /\ spc = "join"
    /\ spc' = "cmd"
    /\ UNCHANGED <<ser, running, scanning, latest_scan, thread, thrVars>>

\* stop() whose _send_stop_cmd lets a failed write escape: close is skipped
StopCmd_Raises ==
    /\ spc = "cmd"
    /\ IF ser = "open" /\ CanFailWrite(line)
       THEN spc' = "done"
       ELSE spc' = "close"
    /\ UNCHANGED <<ser, running, scanning, latest_scan, thread, thrVars>>

\* self._send_stop_cmd(): the write succeeds, or it raises and the bare
\* except swallows the error, or there is no port and nothing is written
StopCmd ==
    /\ spc = "cmd"
    /\ \/ /\ ser = "open"
          /\ lastCtl' = "disable" /\ scanning' = FALSE
       \/ /\ ser = "open" /\ CanFailWrite(line)
          /\ UNCHANGED <<lastCtl, scanning>>
       \/ /\ ser # "open"
          /\ UNCHANGED <<lastCtl, scanning>>
    /\ spc' = "close"
    /\ UNCHANGED <<ser, running, latest_scan, thread, tpc, header, elapsed,
                   recLog, line, unitVars, discarded>>

\* if self.ser: self.ser.close(); self.ser = None
StopClose ==
    /\ spc = "close"
    /\ ser' = "None"
    /\ spc' = "done"
    /\ UNCHANGED <<running, scanning, latest_scan, thread, thrVars>>

LidarStop == StopSignal \/ StopJoin \/ StopCmd \/ StopClose

\* the step of stop() taken at position p
StopStep(p) ==
    CASE p = "idle"  -> "signal"
      [] p = "join"  -> "join"
      [] p = "cmd"   -> "scan-disable"
      [] p = "close" -> "close"
      [] OTHER       -> "none"

----------------------------------------------------------------------------
(* MotorController.execute_command / stop, both variants *)

Kinds == {"MOVE_FORWARD", "MOVE_BACKWARD", "MOVE_LEFT", "MOVE_RIGHT",
          "TURN_LEFT", "TURN_RIGHT", "STOP"}

NoCmd == [command |-> "none", speed |-> 0, duration |-> 0]

\* the if / elif chain of client/motor_controller.py
DispatchClient(command) ==
    CASE command = "MOVE_FORWARD"  -> "go_ahead"
      [] command = "MOVE_BACKWARD" -> "retreat"
      [] command = "MOVE_LEFT"     -> "pan_left"
      [] command = "MOVE_RIGHT"    -> "pan_right"
      [] command = "TURN_LEFT"     -> "counterclockwise_rotation"
      [] command = "TURN_RIGHT"    -> "clockwise_rotation"
      [] command = "STOP"          -> "stop"
      [] OTHER                     -> "unknown"

\* the if / elif chain of deploy_agv/motor_controller.py
DispatchDeploy(command) ==
    CASE command = "MOVE_FORWARD"  -> "go_ahead"
      [] command = "MOVE_BACKWARD" -> "retreat"
      [] command = "TURN_LEFT"     -> "pan_left"
      [] command = "TURN_RIGHT"    -> "pan_right"
      [] command = "STOP"          -> "stop"
      [] OTHER                     -> "unknown"

\* a dispatch that stops the motors on a kind it does not know
Dispatch_StopOnUnknown(v, command) ==
    IF v = "client"
    THEN (IF DispatchClient(command) = "unknown" THEN "stop"
          ELSE DispatchClient(command))
    ELSE (IF DispatchDeploy(command) = "unknown" THEN "stop"
          ELSE DispatchDeploy(command))

Dispatch(v, command) ==
    IF v = "client" THEN DispatchClient(command) ELSE DispatchDeploy(command)

\* cmd_data.get(key, default)
Get(cmd_data, key, default) ==
    IF key \in DOMAIN cmd_data THEN cmd_data[key] ELSE default

\* speed = int(cmd_data.get("speed", 0)): an integer stays what it is
SpeedOf(cmd_data) == Get(cmd_data, "speed", 0)

\* duration = float(cmd_data.get("duration", 0))
DurationOf(cmd_data) == Get(cmd_data, "duration", 0)

\* an execute_command that waits and stops after every move, whatever the
\* duration
TimedBurst_Always(v, cmd_data) ==
    /\ v = "client"
    /\ cmd_data.command # "STOP"

\* whether execute_command goes on to time.sleep(duration); self.stop()
TimedBurst(v, cmd_data) ==
    /\ v = "client"
    /\ DurationOf(cmd_data) > 0
    /\ cmd_data.command # "STOP"

Call(op, speed) == [op |-> op, speed |-> speed]

\* execute_command up to its return or up to time.sleep(duration);
\* log: the calls made on self.agv before this one
ExecuteCommand(t, cmd_data, log) ==
    /\ epc[t] = "idle"
    /\ execs' = [execs EXCEPT ![t] = @ + 1]
    /\ ecmd' = [ecmd EXCEPT ![t] = cmd_data]
    /\ IF mock \/ Dispatch(variant, cmd_data.command) = "unknown"
       THEN /\ agvCalls' = log
            /\ ecalls' = [ecalls EXCEPT ![t] = <<>>]
            /\ UNCHANGED epc
       ELSE /\ agvCalls' = Append(log,
                  Call(Dispatch(variant, cmd_data.command),
                       IF cmd_data.command = "STOP" THEN 0
                       ELSE SpeedOf(cmd_data)))
            /\ ecalls' = [ecalls EXCEPT
                  ![t] = <<Dispatch(variant, cmd_data.command)>>]
            /\ IF TimedBurst(variant, cmd_data)
               THEN epc' = [epc EXCEPT ![t] = "sleeping"]
               ELSE UNCHANGED epc
    /\ UNCHANGED <<variant, mock>>

\* time.sleep(duration) has returned: self.stop()
ExecuteWake(t) ==
    /\ epc[t] = "sleeping"
    /\ agvCalls' = Append(agvCalls, Call("stop", 0))
    /\ ecalls' = [ecalls EXCEPT ![t] = Append(@, "stop")]
    /\ epc' = [epc EXCEPT ![t] = "idle"]
    /\ UNCHANGED <<variant, mock, ecmd, execs>>

\* MotorController.stop
MotorStop(log) ==
    IF mock THEN log ELSE Append(log, Call("stop", 0))

----------------------------------------------------------------------------
(* SafetyInterlock: process_lidar_data, check_safety and the interception  *)

\* process_lidar_data: keep 100 < dist < 8000
process_lidar_data(scan) ==
    LET keep == {a \in DOMAIN scan :
                    Mm(CleanMin) < scan[a] /\ scan[a] < Mm(CleanMax)}
    IN  [a \in keep |-> scan[a]]

\* the front sector with its two bounds included
InFront_Inclusive(ang) == ang <= FrontLow \/ ang >= FrontHigh

\* the angles check_safety looks at
InFront(ang) == ang < FrontLow \/ ang > FrontHigh

\* check_safety that reports an empty scan as unsafe
check_safety_FailClosed(scan) ==
    /\ DOMAIN scan # {}
    /\ ~ \E a \in DOMAIN scan :
           /\ scan[a] > 0
           /\ (a < FrontLow \/ a > FrontHigh)
           /\ scan[a] < Mm(SafetyDist)

\* check_safety(scan, safety_dist=150)
check_safety(scan) ==
    IF DOMAIN scan = {} THEN TRUE
    ELSE ~ \E a \in DOMAIN scan :
             /\ scan[a] > 0
             /\ InFront(a)
             /\ scan[a] < Mm(SafetyDist)

\* an interception that replaces every unsafe command, whatever its kind
Intercept_AnyKind(is_safe, command_data) ==
    IF ~is_safe
    THEN [command_data EXCEPT !.command = "STOP"]
    ELSE command_data

\* if not is_safe and cmd in ["MOVE_FORWARD"]: command_data["command"] = "STOP"
Intercept(is_safe, command_data) ==
    IF ~is_safe /\ command_data.command = "MOVE_FORWARD"
    THEN [command_data EXCEPT !.command = "STOP"]
    ELSE command_data

----------------------------------------------------------------------------
(* The relay channel and the backend (backend/main.py): one response per   *)
(* frame, in order; the connection may close at any time.                  *)

Speeds == {50}
Durations == {0, 1}

Commands(kinds) ==
    [command : kinds, speed : Speeds, duration : Durations]

Cmd(k, s, d) == [command |-> k, speed |-> s, duration |-> d]

\* the commands the backend answers with in the client model
OracleCommands ==
    {Cmd("MOVE_FORWARD", 50, 1), Cmd("TURN_LEFT", 50, 0), Cmd("STOP", 0, 0)}

\* a response: parsable (json.loads succeeds) with its command, or not
Garbage == [parsable |-> FALSE, data |-> NoCmd]

Responses ==
    {[parsable |-> TRUE, data |-> c] : c \in OracleCommands} \cup {Garbage}

\* await websocket.send_json(command_data) for the oldest unanswered frame
OracleRespond ==
    /\ cpc \in {"recv", "exec", "loop"}
    /\ ~connClosed
    /\ answered < iter
    /\ \E body \in Responses :
         inbox' = Append(inbox, [req |-> answered + 1, body |-> body])
    /\ answered' = answered + 1
    /\ UNCHANGED <<drvVars, thrVars, motVars, cpc, iter, snap, proposed, handed,
                   respReq, connClosed, exitCause, shutdownLog>>

\* the backend closes the websocket
ServerClose ==
    /\ cpc \in {"recv", "exec", "loop"}
    /\ ~connClosed
    /\ connClosed' = TRUE
    /\ UNCHANGED <<drvVars, thrVars, motVars, cpc, iter, snap, proposed, handed,
                   respReq, inbox, answered, exitCause, shutdownLog>>

----------------------------------------------------------------------------
(* run_agv_client (client/agv_client.py); the control flow is caller 1 of  *)
(* the motor controller.                                                    *)

Ctl == 1

\* motor = MotorController(); lidar = LidarDriver(LIDAR_PORT); lidar.start()
ClientStart ==
    /\ cpc = "start"
    /\ \E opened \in BOOLEAN : LidarStart(opened)
    /\ cpc' = "camera"
    /\ UNCHANGED <<motVars, iter, snap, proposed, handed, respReq, inbox,
                   answered, connClosed, exitCause, shutdownLog>>

\* cap = BufferlessVideoCapture(CAMERA_ID); if not cap.isOpened(): ...
CameraOpen ==
    /\ cpc = "camera"
    /\ \E isOpened \in BOOLEAN :
         IF isOpened
         THEN cpc' = "connect" /\ UNCHANGED exitCause
         ELSE cpc' = "cam_stop" /\ exitCause' = "camera"
    /\ UNCHANGED <<drvVars, thrVars, motVars, iter, snap, proposed, handed,
                   respReq, inbox, answered, connClosed, shutdownLog>>

\* async with websockets.connect(BACKEND_URL) as websocket:
Connect ==
    /\ cpc = "connect"
    /\ \E connected \in BOOLEAN :
         IF connected
         THEN cpc' = "loop" /\ UNCHANGED exitCause
         ELSE cpc' = "raised" /\ exitCause' = "connect"
    /\ UNCHANGED <<drvVars, thrVars, motVars, iter, snap, proposed, handed,
                   respReq, inbox, answered, connClosed, shutdownLog>>

\* ret, frame = cap.read(); if not ret: sleep; continue
FrameFail ==
    /\ cpc = "loop"
    /\ UNCHANGED vars

\* the loop is left: its locals and the websocket are not used again
LeaveLoop(cause) ==
    /\ cpc' = "fin_motor"
    /\ exitCause' = cause
    /\ snap' = EmptyScan
    /\ proposed' = NoCmd
    /\ handed' = NoCmd
    /\ respReq' = 0
    /\ inbox' = <<>>

\* one pass from cap.read() to await websocket.send(image_bytes)
Iterate ==
    /\ cpc = "loop"
    /\ iter < MaxIter
    /\ agvCalls' = <<>>
    /\ ecmd' = [ecmd EXCEPT ![Ctl] = NoCmd]
    /\ ecalls' = [ecalls EXCEPT ![Ctl] = <<>>]
    /\ IF connClosed
       THEN /\ LeaveLoop("closed")
            /\ UNCHANGED iter
       ELSE /\ cpc' = "recv"
            /\ iter' = iter + 1
            /\ snap' = latest_scan
            /\ proposed' = NoCmd
            /\ handed' = NoCmd
            /\ respReq' = 0
            /\ UNCHANGED <<exitCause, inbox>>
    /\ UNCHANGED <<drvVars, thrVars, variant, mock, epc, execs,
                   answered, connClosed, shutdownLog>>

\* a safety check made on the live map at the time the response arrives
is_safe_Live == check_safety(process_lidar_data(latest_scan))

\* the safety check of this iteration: check_safety(process_lidar_data(scan))
is_safe == check_safety(process_lidar_data(snap))

\* response received and parsed: intercept, motor.execute_command(command_data)
RecvCommand ==
    /\ cpc = "recv"
    /\ inbox # <<>>
    /\ Head(inbox).body.parsable
    /\ inbox' = Tail(inbox)
    /\ proposed' = Head(inbox).body.data
    /\ respReq' = Head(inbox).req
    /\ handed' = Intercept(is_safe, Head(inbox).body.data)
    /\ ExecuteCommand(Ctl, handed', agvCalls)
    /\ cpc' = IF epc'[Ctl] = "sleeping" THEN "exec" ELSE "loop"
    /\ UNCHANGED <<drvVars, thrVars, iter, snap, answered, connClosed,
                   exitCause, shutdownLog>>

\* json.loads(response) raises: not a TimeoutError, leaves the loop
RecvUnparsable ==
    /\ cpc = "recv"
    /\ inbox # <<>>
    /\ ~Head(inbox).body.parsable
    /\ LeaveLoop("unparsable")
    /\ UNCHANGED <<drvVars, thrVars, motVars, iter, answered, connClosed,
                   shutdownLog>>

\* except asyncio.TimeoutError: motor.stop()
RecvTimeout ==
    /\ cpc = "recv"
    /\ inbox = <<>>
    /\ ~connClosed
    /\ agvCalls' = MotorStop(agvCalls)
    /\ cpc' = "loop"
    /\ UNCHANGED <<drvVars, thrVars, variant, mock, epc, ecmd, ecalls, execs, iter, snap,
                   proposed, handed, respReq, inbox, answered, connClosed,
                   exitCause, shutdownLog>>

\* websocket.recv() raises ConnectionClosed
RecvClosed ==
    /\ cpc = "recv"
    /\ inbox = <<>>
    /\ connClosed
    /\ LeaveLoop("closed")
    /\ UNCHANGED <<drvVars, thrVars, motVars, iter, answered, connClosed,
                   shutdownLog>>

\* the duration wait of execute_command ends
ExecDone ==
    /\ cpc = "exec"
    /\ ExecuteWake(Ctl)
    /\ cpc' = "loop"
    /\ UNCHANGED <<drvVars, thrVars, iter, snap, proposed, handed, respReq,
                   inbox, answered, connClosed, exitCause, shutdownLog>>

\* KeyboardInterrupt while the loop runs (also inside time.sleep)
Interrupt ==
    /\ cpc \in {"loop", "recv", "exec"}
    /\ LeaveLoop("interrupt")
    /\ epc' = [epc EXCEPT ![Ctl] = "idle"]
    /\ UNCHANGED <<drvVars, thrVars, variant, mock, ecmd, ecalls, execs, agvCalls,
                   iter, answered, connClosed, shutdownLog>>

\* a finally block that releases the camera without stopping the motors
FinMotorStop_Missing ==
    /\ cpc = "fin_motor"
    /\ cpc' = "fin_cap"
    /\ UNCHANGED <<drvVars, thrVars, motVars, iter, snap, proposed, handed,
                   respReq, inbox, answered, connClosed, exitCause, shutdownLog>>

\* finally: motor.stop()
FinMotorStop ==
    /\ cpc = "fin_motor"
    /\ agvCalls' = MotorStop(agvCalls)
    /\ shutdownLog' = Append(shutdownLog, "motor.stop")
    /\ cpc' = "fin_cap"
    /\ UNCHANGED <<drvVars, thrVars, variant, mock, epc, ecmd, ecalls, execs, iter, snap,
                   proposed, handed, respReq, inbox, answered, connClosed,
                   exitCause>>

\* finally: cap.release()
FinCapRelease ==
    /\ cpc = "fin_cap"
    /\ shutdownLog' = Append(shutdownLog, "cap.release")
    /\ cpc' = "fin_lidar"
    /\ UNCHANGED <<drvVars, thrVars, motVars, iter, snap, proposed, handed,
                   respReq, inbox, answered, connClosed, exitCause>>

\* lidar.stop(), in the finally block and after the camera failed
ClientLidarStop ==
    /\ cpc \in {"fin_lidar", "cam_stop"}
    /\ LidarStop
    /\ shutdownLog' = Append(shutdownLog, StopStep(spc))
    /\ UNCHANGED <<motVars, cpc, iter, snap, proposed, handed, respReq, inbox,
                   answered, connClosed, exitCause>>

\* lidar.stop() has returned: the function returns or the exception goes on
ClientExit ==
    /\ cpc \in {"fin_lidar", "cam_stop"}
    /\ spc = "done"
    /\ spc' = "idle"
    /\ cpc' = IF exitCause = "unparsable" THEN "raised" ELSE "returned"
    /\ UNCHANGED <<ser, running, scanning, latest_scan, thread, thrVars, motVars,
                   iter, snap, proposed, handed, respReq, inbox, answered,
                   connClosed, exitCause, shutdownLog>>

----------------------------------------------------------------------------
(* Specification of the vehicle client *)

\* no byte stream is fed to the decoder
DecoderIdle == rx = <<>> /\ parsed = <<>> /\ sent = [kind |-> "none"]

\* no reader holds a snapshot and no merge is modelled step by step
MapIdle ==
    /\ lock = "free" /\ packet = <<>> /\ pending = <<>>
    /\ copies = <<>> /\ written = EmptyScan

\* get_sector_info is not called
NoQuery == [scan |-> EmptyScan, center_angle |-> 0, width |-> 0]
NoSector == <<0, 0>>
SectorIdle == query = NoQuery /\ sector = NoSector

\* no duration wait is in progress
WaitIdle == asleep = EmptyScan

\* the deployment client has not tried to connect
DeployIdle == attempts = 0

UnitIdle == DecoderIdle /\ MapIdle /\ SectorIdle /\ WaitIdle /\ DeployIdle

\* the driver object after __init__, before start()
DriverFields(lines) ==
    /\ line \in lines
    /\ ser = "None" /\ running = FALSE /\ scanning = FALSE
    /\ latest_scan = EmptyScan /\ thread = "None"
    /\ tpc = "none" /\ header = 0 /\ elapsed = 0 /\ recLog = <<>>
    /\ lastCtl = "none" /\ spc = "idle" /\ discarded = {}

InitDriver(lines) == UnitIdle /\ DriverFields(lines)

InitControl ==
    /\ iter = 0 /\ snap = EmptyScan /\ proposed = NoCmd /\ handed = NoCmd
    /\ respReq = 0 /\ inbox = <<>> /\ answered = 0 /\ connClosed = FALSE
    /\ exitCause = "none" /\ shutdownLog = <<>>

InitMotor(callers, variants, mocks) ==
    /\ variant \in variants
    /\ mock \in mocks
    /\ epc = [t \in callers |-> "idle"]
    /\ ecmd = [t \in callers |-> NoCmd]
    /\ ecalls = [t \in callers |-> <<>>]
    /\ execs = [t \in callers |-> 0]
    /\ agvCalls = <<>>

Init ==
    /\ InitDriver({"silent", "front"})
    /\ InitControl /\ InitMotor({Ctl}, {"client"}, {FALSE})
    /\ cpc = "start"

Next ==
    \/ ClientStart \/ CameraOpen \/ Connect \/ FrameFail \/ Iterate
    \/ RecvCommand \/ RecvUnparsable \/ RecvTimeout \/ RecvClosed
    \/ ExecDone \/ Interrupt
    \/ FinMotorStop \/ FinCapRelease \/ ClientLidarStop \/ ClientExit
    \/ OracleRespond \/ ServerClose
    \/ LoopTop \/ ReadHeaderByte \/ ReadBody
    \/ RecoverStop \/ RecoverSleep \/ RecoverFlush \/ RecoverStart
    \/ LoopExcept

Spec == Init /\ [][Next]_vars

----------------------------------------------------------------------------
(* The driver on its own: the __main__ stub of client/lidar_driver.py       *)
(* (start, poll get_latest_scan once a second, stop on KeyboardInterrupt),  *)
(* on a line that may deliver anything.                                     *)

\* drv = LidarDriver(port); drv.start()
MainStart ==
    /\ cpc = "m_start"
    /\ \E opened \in BOOLEAN : LidarStart(opened)
    /\ cpc' = "m_loop"
    /\ UNCHANGED <<motVars, iter, snap, proposed, handed, respReq, inbox,
                   answered, connClosed, exitCause, shutdownLog>>

\* time.sleep(1); scan = drv.get_latest_scan()
MainPoll ==
    /\ cpc = "m_loop"
    /\ snap' = latest_scan
    /\ cpc' = "m_print"
    /\ UNCHANGED <<drvVars, thrVars, motVars, iter, proposed, handed,
                   respReq, inbox, answered, connClosed, exitCause, shutdownLog>>

\* if scan: print(...) else: print("Waiting for data..."); the scan is not
\* used again
MainPrint ==
    /\ cpc = "m_print"
    /\ snap' = EmptyScan
    /\ cpc' = "m_loop"
    /\ UNCHANGED <<drvVars, thrVars, motVars, iter, proposed, handed,
                   respReq, inbox, answered, connClosed, exitCause, shutdownLog>>

\* except KeyboardInterrupt: the loop and its local scan are left
MainInterrupt ==
    /\ cpc = "m_loop"
    /\ cpc' = "m_stop"
    /\ exitCause' = "interrupt"
    /\ UNCHANGED <<drvVars, thrVars, motVars, iter, snap, proposed, handed,
                   respReq, inbox, answered, connClosed, shutdownLog>>

\* drv.stop()
MainLidarStop ==
    /\ cpc = "m_stop"
    /\ LidarStop
    /\ shutdownLog' = Append(shutdownLog, StopStep(spc))
    /\ UNCHANGED <<motVars, cpc, iter, snap, proposed, handed, respReq, inbox,
                   answered, connClosed, exitCause>>

\* drv.stop() has returned
MainExit ==
    /\ cpc = "m_stop"
    /\ spc = "done"
    /\ spc' = "idle"
    /\ cpc' = "returned"
    /\ UNCHANGED <<ser, running, scanning, latest_scan, thread, thrVars, motVars,
                   iter, snap, proposed, handed, respReq, inbox, answered,
                   connClosed, exitCause, shutdownLog>>

InitDriverMain ==
    /\ InitDriver({"any"})
    /\ InitControl /\ InitMotor({Ctl}, {"client"}, {TRUE})
    /\ cpc = "m_start"

NextDriverMain ==
    \/ MainStart \/ MainPoll \/ MainPrint \/ MainInterrupt
    \/ MainLidarStop \/ MainExit
    \/ LoopTop \/ ReadHeaderByte \/ ReadBody
    \/ RecoverStop \/ RecoverSleep \/ RecoverFlush \/ RecoverStart
    \/ LoopExcept

SpecDriver == InitDriverMain /\ [][NextDriverMain]_vars

\* the operating system keeps scheduling the read loop's thread, and the
\* main thread once it is inside drv.stop()
SpecDriverFair ==
    SpecDriver /\ WF_vars(UpdateLoop) /\ WF_vars(MainLidarStop \/ MainExit)

----------------------------------------------------------------------------
(* The motor controller on its own: callers that invoke execute_command    *)
(* on one MotorController, of either variant.                               *)

Callers == {1, 2}

\* speeds a response can carry: negative, in range, above 100
HarnessSpeeds == {-10, 50, 150}

\* every command kind, and one that is none of them, with a duration of
\* 0 or 1 s or without the duration key; and MOVE_FORWARD with the speeds a
\* response can carry, or without the speed key
HarnessCommands ==
    Commands(Kinds \cup {"DANCE"})
    \cup {[command |-> k, speed |-> 50] : k \in Kinds \cup {"DANCE"}}
    \cup {Cmd("MOVE_FORWARD", s, 0) : s \in HarnessSpeeds}
    \cup {[command |-> "MOVE_FORWARD", duration |-> 0]}

NoBurst == \A t \in DOMAIN epc : epc[t] = "idle"

\* a caller invokes motor.execute_command(cmd_data)
HarnessExecute ==
    /\ cpc = "harness"
    /\ \E t \in Callers, cmd_data \in HarnessCommands :
         /\ execs[t] < MaxExec
         /\ ExecuteCommand(t, cmd_data, IF NoBurst THEN <<>> ELSE agvCalls)
    /\ UNCHANGED <<drvVars, thrVars, ctlVars>>

\* a caller's duration wait ends
HarnessWake ==
    /\ cpc = "harness"
    /\ \E t \in Callers : ExecuteWake(t)
    /\ UNCHANGED <<drvVars, thrVars, ctlVars>>

InitMotorHarness ==
    /\ InitDriver({"silent"})
    /\ InitControl /\ InitMotor(Callers, {"client", "deploy"}, BOOLEAN)
    /\ cpc = "harness"

NextMotor == HarnessExecute \/ HarnessWake

SpecMotor == InitMotorHarness /\ [][NextMotor]_vars

----------------------------------------------------------------------------
(* The safety interlock on its own: the snapshot and the proposed command  *)
(* are inputs, one step applies process_lidar_data, check_safety and the   *)
(* interception of the control loop.                                       *)

\* a snapshot holds at most MaxPoints points
MaxPoints == 2

\* buckets around the edges of the front sector, and one behind
SafetyAngles == {0, 15, 16, 29, 30, 180, 330, 331, 344, 345, 359}

\* stored distances: 100, 101, 149, 150 and 8000 mm
SafetyDists == {400, 404, 596, 600, 32000}

SafetyScans ==
    UNION {[D -> SafetyDists] :
             D \in {E \in SUBSET SafetyAngles : Cardinality(E) <= MaxPoints}}

\* every command kind: the moves at speed 50 for 1 s, and STOP
SafetyCommands ==
    {Cmd(k, 50, 1) : k \in Kinds \ {"STOP"}} \cup {Cmd("STOP", 0, 0)}

\* scan = process_lidar_data(scan); is_safe = check_safety(scan); intercept
Evaluate ==
    /\ cpc = "evaluate"
    /\ handed' = Intercept(is_safe, proposed)
    /\ cpc' = "evaluated"
    /\ UNCHANGED <<drvVars, thrVars, motVars, iter, snap, proposed, respReq,
                   inbox, answered, connClosed, exitCause, shutdownLog>>

InitSafety ==
    /\ InitDriver({"silent"})
    /\ InitMotor({Ctl}, {"client"}, {FALSE})
    /\ iter = 0 /\ respReq = 0 /\ inbox = <<>> /\ answered = 0
    /\ connClosed = FALSE /\ exitCause = "none" /\ shutdownLog = <<>>
    /\ snap \in SafetyScans
    /\ proposed \in SafetyCommands
    /\ handed = NoCmd
    /\ cpc = "evaluate"

NextSafety == Evaluate

SpecSafety == InitSafety /\ [][NextSafety]_vars

----------------------------------------------------------------------------
(* _parse_next_packet on a given byte stream: every read takes what is     *)
(* buffered, and a read that finds too little returns short after the      *)
(* serial timeout (nothing more arrives).                                   *)

\* struct.unpack('<H', two bytes)
Word(lo, hi) == lo + 256 * hi

\* the two bytes of a 16-bit word, low byte first
WordBytes(w) == <<w % 256, w \div 256>>

\* ser.read(n): the bytes returned
Take(bytes, n) == SubSeq(bytes, 1, Min(n, Len(bytes)))

\* ser.read(n): the bytes left in the buffer
Drop(bytes, n) == SubSeq(bytes, Min(n, Len(bytes)) + 1, Len(bytes))

\* the header search: reads one byte at a time until AA 55 was seen
\* (found) or a read returns nothing
RECURSIVE SeekHeader(_, _)
SeekHeader(bytes, h) ==
    IF h = 2 THEN [found |-> TRUE, rest |-> bytes]
    ELSE IF bytes = <<>> THEN [found |-> FALSE, rest |-> bytes]
    ELSE SeekHeader(Tail(bytes), HeaderNext(h, Head(bytes)))

\* the values _parse_next_packet hands back
None == [kind |-> "None", points |-> <<>>]
Points(points) == [kind |-> "points", points |-> points]
Raised == [kind |-> "raised", points |-> <<>>]

\* _parse_next_packet without the length test on raw_data: struct.unpack
\* raises on the incomplete sample block
ParseNextPacket_NoDataCheck(bytes) ==
    LET hs      == SeekHeader(bytes, 0)
        info    == Take(hs.rest, 2)
        r1      == Drop(hs.rest, 2)
        headers == Take(r1, 6)
        r2      == Drop(r1, 6)
        ls      == info[2]
        raw     == Take(r2, 2 * ls)
        fsa     == Word(headers[1], headers[2])
        lsa     == Word(headers[3], headers[4])
        raw_data == [i \in 1..ls |-> Word(raw[2 * i - 1], raw[2 * i])]
    IN  IF ~hs.found THEN [ret |-> None, rest |-> hs.rest]
        ELSE IF Len(info) < 2 THEN [ret |-> None, rest |-> r1]
        ELSE IF Len(headers) < 6 THEN [ret |-> None, rest |-> r2]
        ELSE IF Len(raw) < 2 * ls
             THEN [ret |-> Raised, rest |-> Drop(r2, 2 * ls)]
        ELSE [ret |-> Points(ParsePacket(ls, fsa, lsa, raw_data)),
              rest |-> Drop(r2, 2 * ls)]

\* a decoder that reads ls bytes of samples where the frame carries 2 * ls
ParseNextPacket_HalfData(bytes) ==
    LET hs      == SeekHeader(bytes, 0)
        info    == Take(hs.rest, 2)
        r1      == Drop(hs.rest, 2)
        headers == Take(r1, 6)
        r2      == Drop(r1, 6)
        ls      == info[2]
        raw     == Take(r2, ls) \o [i \in 1..ls |-> 0]
        fsa     == Word(headers[1], headers[2])
        lsa     == Word(headers[3], headers[4])
        raw_data == [i \in 1..ls |-> Word(raw[2 * i - 1], raw[2 * i])]
    IN  IF ~hs.found THEN [ret |-> None, rest |-> hs.rest]
        ELSE IF Len(info) < 2 THEN [ret |-> None, rest |-> r1]
        ELSE IF Len(headers) < 6 THEN [ret |-> None, rest |-> r2]
        ELSE IF Len(Take(r2, ls)) < ls THEN [ret |-> None, rest |-> Drop(r2, ls)]
        ELSE [ret |-> Points(ParsePacket(ls, fsa, lsa, raw_data)),
              rest |-> Drop(r2, ls)]

\* a decoder that drops a frame whose CS field is not the sum of its two
\* angle codes
ParseNextPacket_ChecksCS(bytes) ==
    LET hs      == SeekHeader(bytes, 0)
        info    == Take(hs.rest, 2)
        r1      == Drop(hs.rest, 2)
        headers == Take(r1, 6)
        r2      == Drop(r1, 6)
        ls      == info[2]
        raw     == Take(r2, 2 * ls)
        fsa     == Word(headers[1], headers[2])
        lsa     == Word(headers[3], headers[4])
        raw_data == [i \in 1..ls |-> Word(raw[2 * i - 1], raw[2 * i])]
    IN  IF ~hs.found THEN [ret |-> None, rest |-> hs.rest]
        ELSE IF Len(info) < 2 THEN [ret |-> None, rest |-> r1]
        ELSE IF Len(headers) < 6 THEN [ret |-> None, rest |-> r2]
        ELSE IF Len(raw) < 2 * ls THEN [ret |-> None, rest |-> Drop(r2, 2 * ls)]
        ELSE IF Word(headers[5], headers[6]) # (fsa + lsa) % 65536
             THEN [ret |-> None, rest |-> Drop(r2, 2 * ls)]
        ELSE [ret |-> Points(ParsePacket(ls, fsa, lsa, raw_data)),
              rest |-> Drop(r2, 2 * ls)]

\* _parse_next_packet: [ret, rest] for the buffered bytes
ParseNextPacket(bytes) ==
    LET hs      == SeekHeader(bytes, 0)
        info    == Take(hs.rest, 2)
        r1      == Drop(hs.rest, 2)
        headers == Take(r1, 6)
        r2      == Drop(r1, 6)
        ls      == info[2]
        raw     == Take(r2, 2 * ls)
        fsa     == Word(headers[1], headers[2])
        lsa     == Word(headers[3], headers[4])
        raw_data == [i \in 1..ls |-> Word(raw[2 * i - 1], raw[2 * i])]
    IN  IF ~hs.found THEN [ret |-> None, rest |-> hs.rest]
        ELSE IF Len(info) < 2 THEN [ret |-> None, rest |-> r1]
        ELSE IF Len(headers) < 6 THEN [ret |-> None, rest |-> r2]
        ELSE IF Len(raw) < 2 * ls THEN [ret |-> None, rest |-> Drop(r2, 2 * ls)]
        ELSE [ret |-> Points(ParsePacket(ls, fsa, lsa, raw_data)),
              rest |-> Drop(r2, 2 * ls)]

\* one pass of the read loop on the bytes waiting: points =
\* self._parse_next_packet(); if points: the merge into self.latest_scan
ParseCall ==
    /\ cpc = "decode"
    /\ rx # <<>>
    /\ rx' = ParseNextPacket(rx).rest
    /\ parsed' = Append(parsed, ParseNextPacket(rx).ret)
    /\ latest_scan' = Ingest(latest_scan, ParseNextPacket(rx).ret.points)
    /\ UNCHANGED <<ser, running, scanning, thread, spc, tpc, header, elapsed,
                   recLog, lastCtl, line, sent, discarded,
                   mapVars, secVars, waitVars, depVars,
                   motVars, cpc, iter, snap, proposed, handed, respReq, inbox,
                   answered, connClosed, exitCause, shutdownLog>>

(* The frames the device sends *)

\* sample bytes of a frame, low byte first
RECURSIVE SampleBytes(_)
SampleBytes(raw_data) ==
    IF raw_data = <<>> THEN <<>>
    ELSE WordBytes(Head(raw_data)) \o SampleBytes(Tail(raw_data))

\* AA 55, CT, LS, FSA, LSA, CS, samples; the decoder reads CT and CS and
\* does not look at them
FrameBytesCS(f, cs) ==
    <<170, 85, 0, f.ls>> \o WordBytes(f.fsa) \o WordBytes(f.lsa)
      \o WordBytes(cs) \o SampleBytes(f.raw_data)

\* a frame with a CS field of zero
FrameBytes(f) == FrameBytesCS(f, 0)

\* frames sent back to back
RECURSIVE TrainBytes(_)
TrainBytes(frames) ==
    IF frames = <<>> THEN <<>>
    ELSE FrameBytes(Head(frames)) \o TrainBytes(Tail(frames))

\* angle codes of 0, 10, 12.59, 180, 350 and 359.98 degrees
DecoderAngles == {0, 1280, 1613, 23040, 44800, 46078}

Frames(angles, samples, counts) ==
    UNION {[ls : {n}, fsa : angles, lsa : angles, raw_data : [1..n -> samples]] :
             n \in counts}

\* a frame of the decoder streams carries at most MaxFrameLs samples
MaxFrameLs == 3

\* whole frames, for the angle arithmetic and the short reads
WholeFrames == Frames(DecoderAngles, RawSamples, 0..MaxFrameLs)

\* frames of valid samples (100 and 120 mm), for the resynchronisation
ValidSamples == {400, 480}
ResyncFrames == Frames(AngleCodes, ValidSamples, 1..MaxFrameLs)

\* angle codes of 380 and 400 degrees: beyond the full circle
OverAngles == {48640, 51200}

\* frames whose angle codes lie beyond the full circle
OverFrames == Frames(OverAngles, ValidSamples, 1..MaxFrameLs)

\* samples whose bytes are AA 55 and 55 AA, next to 100 mm
TrainSamples == {400, 21930, 43605}

\* frames of no, one or two such samples at 0 degrees
TrainFrames == Frames({0}, TrainSamples, 0..2)

\* a stream holds at most MaxTrain frames back to back
MaxTrain == 2

\* at most MaxJunk bytes of 0xAA, 0x55 and 0x07 precede a frame
MaxJunk == 3
JunkPrefixes == UNION {[1..n -> {170, 85, 7}] : n \in 0..MaxJunk}

\* values of the CS field
CheckSums == {0, 1, 21930, 65535}

\* damage in transit: the second header byte altered, the last sample's
\* high byte altered, the last sample lost
Damages == {"header", "sample", "cut"}

Damaged(bytes, d) ==
    CASE d = "header" -> [bytes EXCEPT ![2] = 0]
      [] d = "sample" -> [bytes EXCEPT ![Len(bytes)] = 3]
      [] d = "cut"    -> SubSeq(bytes, 1, Len(bytes) - 2)

InitDecoder ==
    /\ DriverFields({"any"})
    /\ InitControl /\ InitMotor({Ctl}, {"client"}, {TRUE})
    /\ cpc = "decode"
    /\ parsed = <<>>
    /\ MapIdle /\ SectorIdle /\ WaitIdle /\ DeployIdle
    /\ \/ \E f \in WholeFrames :
            /\ sent = [kind |-> "whole", frame |-> f]
            /\ rx = FrameBytes(f)
       \/ \E f \in WholeFrames : \E n \in 1..(Len(FrameBytes(f)) - 1) :
            /\ sent = [kind |-> "short", frame |-> f]
            /\ rx = SubSeq(FrameBytes(f), 1, n)
       \/ \E f \in OverFrames :
            /\ sent = [kind |-> "over", frame |-> f]
            /\ rx = FrameBytes(f)
       \/ \E c \in ResyncFrames, f \in ResyncFrames, d \in Damages :
            /\ sent = [kind |-> "resync", frame |-> f, corrupted |-> c,
                       damage |-> d]
            /\ rx = Damaged(FrameBytes(c), d) \o FrameBytes(f)
       \/ \E p \in JunkPrefixes, f \in TrainFrames :
            /\ sent = [kind |-> "junk", frame |-> f, prefix |-> p]
            /\ rx = p \o FrameBytes(f)
       \/ \E k \in 1..MaxTrain : \E fs \in [1..k -> TrainFrames] :
            /\ sent = [kind |-> "train", frames |-> fs]
            /\ rx = TrainBytes(fs)
       \/ \E f \in ResyncFrames, cs \in CheckSums :
            /\ sent = [kind |-> "cs", frame |-> f, cs |-> cs]
            /\ rx = FrameBytesCS(f, cs)

NextDecoder == ParseCall

SpecDecoder == InitDecoder /\ [][NextDecoder]_vars

----------------------------------------------------------------------------
(* self.lock: the merge of a packet into self.latest_scan point by point   *)
(* (_update_loop) against get_latest_scan called by two readers, which may  *)
(* also change the dicts they were handed.                                  *)

Readers == {1, 2}

\* the slot of a reader that has not called get_latest_scan yet
NoCopy == [held |-> FALSE, shared |-> FALSE, val |-> EmptyScan,
           expect |-> EmptyScan, merged |-> 0, left |-> 0]

\* returning self.latest_scan itself: the reader shares the live dict
Copy_Alias(scan) == [shared |-> TRUE, val |-> scan]

\* self.latest_scan.copy(): a new dict with the same items
Copy(scan) == [shared |-> FALSE, val |-> scan]

\* the content of the dict reader c holds
View(c) == IF copies[c].shared THEN latest_scan ELSE copies[c].val

\* the frames the lidar sends in this specification: 100 mm at 0 degrees
\* with 120 mm at 180 degrees, the reverse, and a single 100 mm at 0 degrees
SnapshotFrames ==
    { [ls |-> 2, fsa |-> 0, lsa |-> 23040, raw_data |-> <<400, 480>>],
      [ls |-> 2, fsa |-> 0, lsa |-> 23040, raw_data |-> <<480, 400>>],
      [ls |-> 1, fsa |-> 0, lsa |-> 0, raw_data |-> <<400>>] }

\* points = self._parse_next_packet(), with points
PacketArrives ==
    /\ tpc = "top"
    /\ \E f \in SnapshotFrames :
         packet' = ParsePacket(f.ls, f.fsa, f.lsa, f.raw_data)
    /\ tpc' = "lock"
    /\ UNCHANGED <<drvVars, header, elapsed, recLog, lastCtl, discarded, line,
                   decVars, depVars, secVars, waitVars, lock, pending, copies, written, ctlVars, motVars>>

\* with self.lock: (entered)
LockAcquire ==
    /\ tpc = "lock"
    /\ lock = "free"
    /\ lock' = "loop"
    /\ pending' = packet
    /\ tpc' = "merge"
    /\ UNCHANGED <<drvVars, header, elapsed, recLog, lastCtl, discarded, line,
                   decVars, depVars, secVars, waitVars, packet, copies, written, ctlVars, motVars>>

\* one pass of: for ang, dist in points: ... self.latest_scan[int(ang)] = dist
MergePoint ==
    /\ tpc = "merge"
    /\ pending # <<>>
    /\ latest_scan' = Ingest(latest_scan, <<Head(pending)>>)
    /\ written' = Ingest(written, <<Head(pending)>>)
    /\ pending' = Tail(pending)
    /\ UNCHANGED <<ser, running, scanning, thread, spc, tpc, header, elapsed,
                   recLog, lastCtl, discarded, line, decVars, depVars, secVars, waitVars, lock, packet,
                   copies, ctlVars, motVars>>

\* a read loop that goes back to the serial read with self.lock still held
LockRelease_KeepsLock ==
    /\ tpc = "merge"
    /\ pending = <<>>
    /\ packet' = <<>>
    /\ tpc' = "top"
    /\ UNCHANGED <<drvVars, header, elapsed, recLog, lastCtl, discarded, line,
                   decVars, depVars, secVars, waitVars, lock, pending, copies,
                   written, ctlVars, motVars>>

\* with self.lock: (left)
LockRelease ==
    /\ tpc = "merge"
    /\ pending = <<>>
    /\ lock' = "free"
    /\ packet' = <<>>
    /\ tpc' = "top"
    /\ UNCHANGED <<drvVars, header, elapsed, recLog, lastCtl, discarded, line,
                   decVars, depVars, secVars, waitVars, pending, copies, written, ctlVars, motVars>>

\* the dict handed to reader c, with what was merged of the packet in
\* progress at that moment
Handout(c) ==
    [copies EXCEPT ![c] =
       [held |-> TRUE, shared |-> Copy(latest_scan).shared,
        val |-> Copy(latest_scan).val, expect |-> latest_scan,
        merged |-> IF tpc = "merge" THEN Len(packet) - Len(pending) ELSE 0,
        left |-> IF tpc = "merge" THEN Len(pending) ELSE 0]]

\* get_latest_scan that copies without taking self.lock
GetLatestScan_NoLock(c) ==
    /\ copies' = Handout(c)
    /\ UNCHANGED <<drvVars, tpc, header, elapsed, recLog, lastCtl, discarded,
                   line, decVars, depVars, secVars, waitVars, lock, packet, pending, written, ctlVars,
                   motVars>>

\* get_latest_scan by reader c: with self.lock: return self.latest_scan.copy()
GetLatestScan(c) ==
    /\ lock = "free"
    /\ copies' = Handout(c)
    /\ UNCHANGED <<drvVars, tpc, header, elapsed, recLog, lastCtl, discarded,
                   line, decVars, depVars, secVars, waitVars, lock, packet, pending, written, ctlVars,
                   motVars>>

\* what a reader does to the dict it holds: drop every entry, or store
\* 1 mm at bucket 0
Mutations == {"clear", "set"}

Mutated(scan, m) ==
    IF m = "clear" THEN EmptyScan
    ELSE [a \in DOMAIN scan \cup {0} |-> IF a = 0 THEN 4 ELSE scan[a]]

\* reader c changes the dict it was handed
ReaderMutates(c) ==
    /\ copies[c].held
    /\ \E m \in Mutations :
         /\ copies' = [copies EXCEPT ![c].val = Mutated(View(c), m),
                                     ![c].expect = Mutated(View(c), m)]
         /\ IF copies[c].shared
            THEN latest_scan' = Mutated(View(c), m)
            ELSE UNCHANGED latest_scan
    /\ UNCHANGED <<ser, running, scanning, thread, spc, tpc, header, elapsed,
                   recLog, lastCtl, discarded, line, decVars, depVars, secVars, waitVars, lock, packet,
                   pending, written, ctlVars, motVars>>

\* the driver after start() opened the port and started the read loop
DriverStarted(lines) ==
    /\ line \in lines
    /\ ser = "open" /\ running = TRUE /\ scanning = TRUE
    /\ latest_scan = EmptyScan /\ thread = "alive"
    /\ tpc = "top" /\ header = 0 /\ elapsed = 0 /\ recLog = <<>>
    /\ lastCtl = "enable" /\ spc = "idle" /\ discarded = {}

InitSnapshot ==
    /\ DriverStarted({"front"})
    /\ DecoderIdle /\ SectorIdle /\ WaitIdle /\ DeployIdle
    /\ InitControl /\ InitMotor({Ctl}, {"client"}, {TRUE})
    /\ cpc = "readers"
    /\ lock = "free" /\ packet = <<>> /\ pending = <<>>
    /\ copies = [c \in Readers |-> NoCopy]
    /\ written = EmptyScan

NextSnapshot ==
    \/ PacketArrives \/ LockAcquire \/ MergePoint \/ LockRelease
    \/ \E c \in Readers : GetLatestScan(c)
    \/ \E c \in Readers : ReaderMutates(c)

SpecSnapshot == InitSnapshot /\ [][NextSnapshot]_vars

\* the read loop is a running thread: once it can take the lock, merge a
\* point or leave the with block, it does
SpecSnapshotFair ==
    /\ SpecSnapshot
    /\ WF_vars(LockAcquire) /\ WF_vars(MergePoint) /\ WF_vars(LockRelease)

----------------------------------------------------------------------------
(* The sector query of client/check_front_dist.py on its own: the scan, the *)
(* centre and the width are inputs, one step applies get_sector_info.       *)
(* Angles are compared in half degrees, so that width / 2.0 stays exact.    *)

\* (None, None)
NoneNone == <<-1, -1>>

\* start_a <= angle <= end_a, or its wrap-around form, in half degrees
InSector(angle, center_angle, width) ==
    LET start_a == (2 * center_angle - width) % (2 * FullCircle)
        end_a == (2 * center_angle + width) % (2 * FullCircle)
    IN  IF start_a < end_a
        THEN start_a <= 2 * angle /\ 2 * angle <= end_a
        ELSE 2 * angle >= start_a \/ 2 * angle <= end_a

\* the values get_sector_info can return: the smallest distance above the
\* noise floor inside the sector, at the angle where the loop over
\* scan.items() met it first
get_sector_info(scan, center_angle, width) ==
    LET hits == {a \in DOMAIN scan :
                   scan[a] > Mm(MinValidRange)
                   /\ InSector(a, center_angle, width)}
        nearest == {a \in hits : \A b \in hits : scan[a] <= scan[b]}
    IN  IF scan = EmptyScan \/ hits = {}
        THEN {NoneNone}
        ELSE {<<scan[a], a>> : a \in nearest}

\* a scan holds at most MaxSectorPoints points
MaxSectorPoints == 3

\* buckets inside, at the edge of and outside the sectors asked for
SectorAngles == {5, 15, 16, 180, 355}

\* stored distances: 10, 50, 100 and 200 mm
SectorDists == {40, 200, 400, 800}

SectorScans ==
    UNION {[D -> SectorDists] :
             D \in {E \in SUBSET SectorAngles :
                      Cardinality(E) <= MaxSectorPoints}}

SectorCenters == {0, 180, 350}
SectorWidths == {0, 20, 30, 360}

\* dist, ang = get_sector_info(scan, center_angle, width)
SectorCall ==
    /\ cpc = "query"
    /\ sector' \in get_sector_info(query.scan, query.center_angle, query.width)
    /\ cpc' = "queried"
    /\ UNCHANGED <<drvVars, tpc, header, elapsed, recLog, lastCtl, discarded,
                   line, decVars, depVars, mapVars, waitVars, query, motVars, iter, snap,
                   proposed, handed, respReq, inbox, answered, connClosed,
                   exitCause, shutdownLog>>

InitSector ==
    /\ DecoderIdle /\ MapIdle /\ WaitIdle /\ DeployIdle
    /\ DriverFields({"silent"})
    /\ InitControl /\ InitMotor({Ctl}, {"client"}, {FALSE})
    /\ query \in [scan : SectorScans, center_angle : SectorCenters,
                  width : SectorWidths]
    /\ sector = NoSector
    /\ cpc = "query"

NextSector == SectorCall

SpecSector == InitSector /\ [][NextSector]_vars

----------------------------------------------------------------------------
(* The duration wait of execute_command next to the read loop: the control *)
(* flow calls motor.execute_command while the read loop merges packets     *)
(* under self.lock and readers call get_latest_scan.                        *)

\* the commands handed to execute_command in this specification
WaitCommands ==
    {Cmd("MOVE_BACKWARD", 50, 1), Cmd("TURN_LEFT", 50, 0), Cmd("STOP", 0, 0)}

\* execute_command with its time.sleep(duration) inside `with lidar.lock:`
WaitExecute_Locked ==
    /\ cpc = "wait"
    /\ execs[Ctl] < MaxExec
    /\ lock = "free"
    /\ \E cmd_data \in WaitCommands : ExecuteCommand(Ctl, cmd_data, agvCalls)
    /\ asleep' = IF epc'[Ctl] = "sleeping" THEN latest_scan ELSE asleep
    /\ lock' = IF epc'[Ctl] = "sleeping" THEN "exec" ELSE lock
    /\ UNCHANGED <<drvVars, tpc, header, elapsed, recLog, lastCtl, discarded,
                   line, decVars, depVars, secVars, packet, pending, copies, written,
                   ctlVars>>

\* motor.execute_command(command_data): MotorController has no lock and is
\* given none; the call returns, or stays in time.sleep(duration)
WaitExecute ==
    /\ cpc = "wait"
    /\ execs[Ctl] < MaxExec
    /\ \E cmd_data \in WaitCommands : ExecuteCommand(Ctl, cmd_data, agvCalls)
    /\ asleep' = IF epc'[Ctl] = "sleeping" THEN latest_scan ELSE asleep
    /\ UNCHANGED <<drvVars, tpc, header, elapsed, recLog, lastCtl, discarded,
                   line, decVars, depVars, secVars, mapVars, ctlVars>>

\* time.sleep(duration) has returned: self.stop()
WaitWake ==
    /\ cpc = "wait"
    /\ ExecuteWake(Ctl)
    /\ asleep' = EmptyScan
    /\ UNCHANGED <<drvVars, tpc, header, elapsed, recLog, lastCtl, discarded,
                   line, decVars, depVars, secVars, mapVars, ctlVars>>

InitWait ==
    /\ DriverStarted({"front"})
    /\ DecoderIdle /\ SectorIdle /\ WaitIdle /\ DeployIdle
    /\ InitControl /\ InitMotor({Ctl}, {"client"}, {FALSE})
    /\ cpc = "wait"
    /\ lock = "free" /\ packet = <<>> /\ pending = <<>>
    /\ copies = [c \in Readers |-> NoCopy]
    /\ written = EmptyScan

NextWait ==
    \/ WaitExecute \/ WaitWake
    \/ PacketArrives \/ LockAcquire \/ MergePoint \/ LockRelease
    \/ \E c \in Readers : GetLatestScan(c)

SpecWait == InitWait /\ [][NextWait]_vars

----------------------------------------------------------------------------
(* The deployment client (deploy_agv/agv_client.py): connect, then one     *)
(* frame and one command per pass; on a failure, reconnect.                *)

\* the client calls websockets.connect at most MaxAttempts times
MaxAttempts == 2

\* what the deployment client leaves alone
depRest == <<drvVars, tpc, header, elapsed, recLog, lastCtl, discarded, line,
             decVars, mapVars, secVars, waitVars, snap, proposed, respReq,
             inbox, answered, exitCause, shutdownLog, variant, mock>>

\* the commands the backend answers the deployment client with
DeployCommands ==
    {Cmd("MOVE_FORWARD", 50, 1), Cmd("TURN_LEFT", 50, 0),
     Cmd("STOP", 0, 0), Cmd("DANCE", 50, 0)}

\* async with websockets.connect(backend_url): connected, or
\* (OSError, ConnectionRefusedError): motor.stop() and time.sleep(3), or
\* any other exception: time.sleep(1)
DeployConnect ==
    /\ cpc = "d_connect"
    /\ attempts < MaxAttempts
    /\ attempts' = attempts + 1
    /\ \/ /\ cpc' = "d_frame"
          /\ connClosed' = FALSE
          /\ UNCHANGED agvCalls
       \/ /\ cpc' = "d_wait3"
          /\ connClosed' = TRUE
          /\ agvCalls' = MotorStop(agvCalls)
       \/ /\ cpc' = "d_wait1"
          /\ connClosed' = TRUE
          /\ UNCHANGED agvCalls
    /\ UNCHANGED <<depRest, iter, handed, epc, ecmd, ecalls, execs>>

\* time.sleep(3) or time.sleep(1) has returned: the outer loop goes round
DeployRetry ==
    /\ cpc \in {"d_wait3", "d_wait1"}
    /\ cpc' = "d_connect"
    /\ UNCHANGED <<depRest, depVars, iter, handed, connClosed, motVars>>

\* cap.read, cv2.imencode, websocket.send(image_bytes): sent, or
\* ConnectionClosed: break, and the outer loop connects again
DeployFrame ==
    /\ cpc = "d_frame"
    /\ \/ /\ iter < MaxIter
          /\ iter' = iter + 1
          /\ cpc' = "d_recv"
          /\ UNCHANGED connClosed
       \/ /\ cpc' = "d_connect"
          /\ connClosed' = TRUE
          /\ UNCHANGED iter
    /\ UNCHANGED <<depRest, depVars, handed, motVars>>

\* websocket.recv, json.loads, motor.execute_command(command_data); or
\* ConnectionClosed: break; or json.loads raises: the outer handler sleeps
DeployRecv ==
    /\ cpc = "d_recv"
    /\ \/ \E command_data \in DeployCommands :
            /\ ExecuteCommand(Ctl, command_data, agvCalls)
            /\ handed' = command_data
            /\ cpc' = "d_frame"
            /\ UNCHANGED connClosed
       \/ /\ cpc' = "d_connect"
          /\ connClosed' = TRUE
          /\ UNCHANGED <<handed, motVars>>
       \/ /\ cpc' = "d_wait1"
          /\ connClosed' = TRUE
          /\ UNCHANGED <<handed, motVars>>
    /\ UNCHANGED <<drvVars, tpc, header, elapsed, recLog, lastCtl, discarded,
                   line, decVars, mapVars, secVars, waitVars, snap, proposed,
                   respReq, inbox, answered, exitCause, shutdownLog,
                   depVars, iter>>

\* KeyboardInterrupt: break, then motor.stop() and cap.release()
DeployInterrupt ==
    /\ cpc \in {"d_connect", "d_wait3", "d_wait1", "d_frame", "d_recv"}
    /\ cpc' = "d_done"
    /\ connClosed' = TRUE
    /\ agvCalls' = MotorStop(agvCalls)
    /\ UNCHANGED <<depRest, depVars, iter, handed, epc, ecmd, ecalls, execs>>

InitDeploy ==
    /\ InitDriver({"silent"})
    /\ InitControl
    /\ InitMotor({Ctl}, {"deploy"}, {FALSE})
    /\ cpc = "d_connect"

NextDeploy ==
    \/ DeployConnect
    \/ DeployRetry
    \/ DeployFrame
    \/ DeployRecv
    \/ DeployInterrupt

SpecDeploy == InitDeploy /\ [][NextDeploy]_vars

----------------------------------------------------------------------------
(* Properties *)

\* the scan check_safety is given in the current iteration
Scan == process_lidar_data(snap)

\* a response has been received and handed to the executor in this iteration
Handed == proposed # NoCmd /\ cpc \in {"exec", "loop"}

\* the front cone of the specification: 0 degrees plus or minus 15
InSpecCone(a) == a <= 15 \/ a >= 345

Ops(calls) == {calls[i].op : i \in DOMAIN calls}

\* C1: in one iteration, when the snapshot holds a point of the front cone
\* closer than 150 mm (whatever its distance above the noise floor) and the
\* oracle proposes MOVE_FORWARD, the command handed to the executor is STOP
\* and no forward-drive call is made.
C1_VetoEndToEnd ==
    ( /\ Handed
      /\ proposed.command = "MOVE_FORWARD"
      /\ \E a \in DOMAIN snap : InSpecCone(a) /\ snap[a] < Mm(150) )
    => ( /\ handed.command = "STOP"
         /\ "go_ahead" \notin Ops(agvCalls) )

C3_BoundedBurst ==
    \A t \in DOMAIN epc :
      ( /\ ~mock
        /\ ecmd[t].command \in Kinds \ {"STOP"}
        /\ DurationOf(ecmd[t]) > 0 )
      => \/ epc[t] = "sleeping"
            /\ ecalls[t] = <<DispatchClient(ecmd[t].command)>>
         \/ epc[t] = "idle"
            /\ ecalls[t] = <<DispatchClient(ecmd[t].command), "stop">>

\* C4: no two timed bursts are outstanding at once, and while a burst is
\* outstanding no drive call directly follows another drive call (a stop
\* call comes between them).
C4_AtMostOneBurst ==
    /\ Cardinality({t \in DOMAIN epc : epc[t] = "sleeping"}) <= 1
    /\ \A i \in DOMAIN agvCalls :
         (i > 1 /\ agvCalls[i].op # "stop") => agvCalls[i - 1].op = "stop"

\* C5: the command executed in an iteration is the response to the request
\* sent in that iteration, never the response to an earlier frame.
C5_NoStaleResponse ==
    Handed => respReq = iter

\* C6: a failed oracle round trip (timeout, unparsable response, closed
\* connection) never makes the control loop end.
C6_OracleFailureNotFatal ==
    exitCause \notin {"timeout", "unparsable", "closed"}

\* C7: with an empty snapshot a proposed MOVE_FORWARD reaches the executor
\* with kind, speed and duration unmodified, and is driven.
C7_FailOpenOnEmptyScan ==
    ( /\ Handed
      /\ snap = EmptyScan
      /\ proposed.command = "MOVE_FORWARD" )
    => ( /\ handed = proposed
         /\ ecmd[Ctl] = proposed
         /\ (~mock => agvCalls # <<>> /\ agvCalls[1] = Call("go_ahead", proposed.speed)) )

\* the driver never produced a point, the snapshot is empty, and the
\* forward drive call of the proposed MOVE_FORWARD has been made
C7_Witness ==
    /\ cpc = "exec"
    /\ snap = EmptyScan /\ latest_scan = EmptyScan /\ thread = "alive"
    /\ proposed = Cmd("MOVE_FORWARD", 50, 1)
    /\ agvCalls = <<Call("go_ahead", 50)>>

\* C8: the control cycle never runs with a driver whose serial port could
\* not be opened (start() would have reported the failure).
C8_NoCycleWithoutSerial ==
    cpc \in {"loop", "recv", "exec"} => thread # "None"

\* C9: whenever the read loop is running and no packet has been produced
\* for more than the stall timeout, the stall ends: the recovery completes
\* (or a packet arrives, or the loop is stopped).
C9_StallRecovery ==
    (thread = "alive" /\ running /\ elapsed > StallTimeout)
    ~> (elapsed = 0 \/ ~running \/ thread # "alive")

\* the steps of the finally block of run_agv_client
InShutdown == exitCause \notin {"none", "camera", "connect"}

IsPrefix(a, b) == Len(a) <= Len(b) /\ a = SubSeq(b, 1, Len(a))

\* C10 as claimed: STOP is never issued before the read loop has been
\* signalled to stop.
C10_LoopStoppedBeforeStop ==
    InShutdown =>
      \A i \in DOMAIN shutdownLog :
        shutdownLog[i] = "motor.stop" =>
          \E j \in 1..(i - 1) : shutdownLog[j] = "signal"

\* C10 as amended: on shutdown motor.stop() comes first, then the camera is
\* released, then the read loop is signalled to stop and joined, then
\* scan-disable is written, and the serial port is released last.
C10_ShutdownOrder ==
    InShutdown =>
      /\ \/ IsPrefix(shutdownLog, <<"motor.stop", "cap.release", "signal",
                                    "join", "scan-disable", "close">>)
         \/ /\ thread = "None"
            /\ IsPrefix(shutdownLog, <<"motor.stop", "cap.release", "signal",
                                       "scan-disable", "close">>)
      /\ ("motor.stop" \notin {shutdownLog[i] : i \in DOMAIN shutdownLog}
            => (running <=> thread # "None") /\ (ser = "open" <=> thread # "None"))
      /\ (cpc \in {"returned", "raised"} => ser = "None" /\ Len(shutdownLog) >= 5)

\* a shutdown after an interrupt that went through every step, with the
\* port open until the end
C10_Witness ==
    /\ cpc = "returned"
    /\ exitCause = "interrupt"
    /\ shutdownLog = <<"motor.stop", "cap.release", "signal", "join",
                       "scan-disable", "close">>
    /\ lastCtl = "disable"

\* C11: the client never returns (or ends with an exception) with the
\* serial port still open or the read loop still told to run: on every exit
\* path after start() the driver's stop() has run.
C11_StopOnEveryExit ==
    cpc \in {"returned", "raised"} => (ser = "None" /\ ~running)

\* the steps of stop() recorded so far are a prefix of the claimed order
StopOrder(log) ==
    \/ IsPrefix(log, <<"signal", "join", "scan-disable", "close">>)
    \/ thread = "None" /\ IsPrefix(log, <<"signal", "scan-disable", "close">>)

\* C12: stop() signals the read loop, joins it with a timeout, writes
\* scan-disable and closes the port, in that order; when stop() has returned
\* the port is closed and every step was taken, whether or not the join
\* timed out or the write failed.
C12_StopOrderAndRelease ==
    /\ StopOrder(shutdownLog)
    /\ (cpc = "returned" =>
          /\ ser = "None" /\ ~running
          /\ shutdownLog # <<>>
          /\ shutdownLog[Len(shutdownLog)] = "close")

\* stop() has returned after a join that timed out (the read loop is still
\* alive) and a scan-disable write that failed; the port is closed
C12_Witness ==
    /\ cpc = "returned"
    /\ thread = "alive"
    /\ lastCtl = "enable"
    /\ shutdownLog = <<"signal", "join", "scan-disable", "close">>
    /\ ser = "None"

\* frames sent whose response the client has not yet received
Outstanding == iter - (answered - Len(inbox))

\* C13: at most one oracle request is outstanding: no frame is sent before
\* the response to the previous frame was received.
C13_NoPipelining ==
    cpc \in {"loop", "recv", "exec"} => Outstanding <= 1

\* the point lists the calls of _parse_next_packet returned, in order
Returned == SelectSeq(parsed, LAMBDA r : r.kind = "points")

\* C14: once a stream made of a corrupted frame followed by a valid frame
\* has been consumed, the decoder has returned exactly one point list, the
\* valid frame's points, and nothing built from the corrupted frame.
C14_Resync ==
    (sent.kind = "resync" /\ rx = <<>>)
    => Returned = <<Points(ParsePacket(sent.frame.ls, sent.frame.fsa,
                                       sent.frame.lsa, sent.frame.raw_data))>>

\* C15: on a stream that ends before a frame is complete, at whatever
\* stage, every call of _parse_next_packet returns None: nothing is raised
\* and no point list is returned.
C15_ShortReadYieldsNone ==
    sent.kind = "short" => \A i \in DOMAIN parsed : parsed[i] = None

\* a frame of two samples cut inside its sample block: the call consumed
\* the stream and returned None
C15_Witness ==
    /\ sent.kind = "short"
    /\ sent.frame.ls = 2
    /\ Len(rx) = 0
    /\ parsed = <<None>>

\* C16: for a whole frame whose angle codes decode into [0, 360), every
\* emitted angle lies in [0, 360); and when no sample was dropped, the angle
\* of sample i is start + span * i / (ls - 1) taken modulo 360, where span
\* is end - start, plus 360 when that is negative (angles in 1/64 degree).
C16_AngleWrap ==
    (sent.kind = "whole" /\ parsed # <<>>) =>
      LET f    == sent.frame
          pts  == parsed[1].points
          S    == f.fsa \div 2
          E    == f.lsa \div 2
          span == IF E - S < 0 THEN E - S + 360 * 64 ELSE E - S
          den  == IF f.ls > 1 THEN 64 * (f.ls - 1) ELSE 64
      IN  /\ parsed[1].kind = "points"
          /\ span >= 0 /\ span < 360 * 64
          /\ \A i \in DOMAIN pts :
               /\ pts[i].num >= 0
               /\ pts[i].num < 360 * pts[i].den
          /\ Len(pts) = f.ls =>
               \A i \in DOMAIN pts :
                 /\ pts[i].den = den
                 /\ pts[i].num =
                      IF f.ls > 1
                      THEN (S * (f.ls - 1) + span * (i - 1)) % (360 * den)
                      ELSE S

\* the packet from 350 to 10 degrees with three samples, decoded to
\* 350, 0 and 10 degrees
C16_Witness ==
    /\ sent.kind = "whole"
    /\ sent.frame.fsa = 44800 /\ sent.frame.lsa = 1280 /\ sent.frame.ls = 3
    /\ parsed # <<>>
    /\ Len(parsed[1].points) = 3
    /\ parsed[1].points[1].num = 350 * 128
    /\ parsed[1].points[2].num = 0
    /\ parsed[1].points[3].num = 10 * 128

\* C17: no snapshot returned by get_latest_scan holds a distance above the
\* maximum valid range (8000 mm).
C17_NoOverRange ==
    \A a \in DOMAIN snap : snap[a] <= Mm(CleanMax)

\* C18: neither the live map nor a snapshot returned by get_latest_scan
\* ever holds a distance at or below the noise floor, whatever packets were
\* decoded.
C18_NoNoiseStored ==
    /\ \A a \in DOMAIN latest_scan : latest_scan[a] > Mm(MinValidRange)
    /\ \A a \in DOMAIN snap : snap[a] > Mm(MinValidRange)

\* a packet with a sample at the noise floor and a valid sample was just
\* decoded, and the snapshot taken after it holds the valid sample only
C18_Witness ==
    /\ discarded = {Mm(MinValidRange)}
    /\ cpc = "m_print"
    /\ snap = latest_scan
    /\ DOMAIN snap = {180}
    /\ snap[180] = 400

\* C19: no snapshot is copied while a packet is partly merged: when it was
\* copied, the packet in progress had none of its points in the live map or
\* all of them.
C19_SnapshotAtomic ==
    \A c \in DOMAIN copies :
      copies[c].held => ~(copies[c].merged > 0 /\ copies[c].left > 0)

\* the read loop holds the lock with one of two points merged, while
\* reader 1 holds the snapshot it took before that packet
C19_Witness ==
    /\ tpc = "merge" /\ lock = "loop"
    /\ Len(packet) = 2 /\ Len(pending) = 1
    /\ copies[1].held
    /\ copies[1].val # latest_scan
    /\ copies[1].val = (0 :> 400)

\* C20: a snapshot handed to a reader changes only when that reader changes
\* it (not by later ingestion, not by another reader), and the live map
\* holds exactly what the read loop wrote (no reader's change reaches it).
C20_SnapshotIndependent ==
    /\ latest_scan = written
    /\ \A c \in DOMAIN copies :
         copies[c].held => View(c) = copies[c].expect

\* reader 1 changed its snapshot, reader 2 holds an unchanged one, and the
\* live map has moved on from both
C20_Witness ==
    /\ copies[1].held /\ copies[2].held
    /\ View(1) = (0 :> 4)
    /\ View(2) = (0 :> 400)
    /\ latest_scan = (0 :> 480 @@ 180 :> 400)

\* the valid entries of the scan whose angle lies in
\* [center - width/2, center + width/2] taken modulo 360
InRange(q) ==
    {a \in DOMAIN q.scan :
       /\ q.scan[a] > Mm(MinValidRange)
       /\ \E k \in -2..2 :
            /\ 2 * q.center_angle - q.width <= 2 * (a + FullCircle * k)
            /\ 2 * (a + FullCircle * k) <= 2 * q.center_angle + q.width}

\* C21: get_sector_info returns the minimum distance, and an angle at which
\* it occurs, over exactly the valid entries whose angle lies in
\* [center - width/2, center + width/2] modulo 360, and (None, None) when
\* there is no such entry, for every centre and every width from 0 to 360.
C21_SectorQuery ==
    cpc = "queried" =>
        IF InRange(query) = {}
        THEN sector = NoneNone
        ELSE /\ sector[2] \in InRange(query)
             /\ sector[1] = query.scan[sector[2]]
             /\ \A a \in InRange(query) : sector[1] <= query.scan[a]

\* C22: while execute_command is in its duration wait, self.lock is free or
\* held by the read loop for a merge in progress, never by the executor: the
\* read loop that asks for the lock finds it free, and a reader waits for
\* the end of a merge at most.
C22_WaitHoldsNoLock ==
    epc[Ctl] = "sleeping" =>
        /\ lock \in {"free", "loop"}
        /\ tpc = "lock" => lock = "free"
        /\ lock = "loop" => tpc = "merge"

\* during one duration wait, which began with an empty live map, the read
\* loop merged a whole packet and a reader was handed a copy of the result
C22_Witness ==
    /\ epc[Ctl] = "sleeping"
    /\ asleep = EmptyScan
    /\ DOMAIN latest_scan = {0, 180}
    /\ lock = "free"
    /\ copies[1].held /\ copies[1].val = latest_scan

\* C23: a proposed command whose kind is not MOVE_FORWARD is handed to the
\* executor with its kind, speed and duration unchanged, whatever the scan
\* holds.
C23_OtherKindsPassThrough ==
    (cpc = "evaluated" /\ proposed.command # "MOVE_FORWARD") =>
        handed = proposed

\* TURN_LEFT was proposed while a point of the front sector is closer than
\* 150 mm, and it was handed on as it came
C23_Witness ==
    /\ cpc = "evaluated"
    /\ proposed = Cmd("TURN_LEFT", 50, 1)
    /\ ~is_safe
    /\ DOMAIN snap = {0} /\ snap[0] = 404
    /\ handed = Cmd("TURN_LEFT", 50, 1)

\* C24: execute_command of client/motor_controller.py with a kind other
\* than STOP and a duration that is absent or 0 makes the drive call of that
\* kind and returns: it does not wait and makes no stop call.
C24_ContinuousMotion ==
    \A t \in DOMAIN epc :
      ( /\ ~mock /\ variant = "client"
        /\ ecmd[t].command \in Kinds \ {"STOP"}
        /\ DurationOf(ecmd[t]) = 0 )
      => /\ epc[t] = "idle"
         /\ ecalls[t] = <<DispatchClient(ecmd[t].command)>>

\* MOVE_FORWARD without a duration key was executed: one go_ahead call, no
\* stop call, and the caller is back
C24_Witness ==
    /\ ~mock /\ variant = "client"
    /\ ecmd[1] = [command |-> "MOVE_FORWARD", speed |-> 50]
    /\ execs[1] = 1 /\ epc[1] = "idle"
    /\ ecalls[1] = <<"go_ahead">>
    /\ agvCalls = <<Call("go_ahead", 50)>>

\* C30: the speed handed to a drive primitive of self.agv is an integer in
\* 0..100, whatever speed the command carries.
C30_SpeedInRange ==
    \A i \in DOMAIN agvCalls :
      agvCalls[i].op # "stop" =>
        (0 <= agvCalls[i].speed /\ agvCalls[i].speed <= 100)

\* C25: once stop() has written scan-disable, scan-disable stays the last
\* scanner control command on the stream: the read loop writes no
\* scan-enable while stop() finishes or after it has returned, also when
\* the loop is inside its stall recovery and the join timed out.
C25_NoEnableAfterStop ==
    [][(spc \in {"close", "done"} /\ lastCtl = "disable")
         => lastCtl' = "disable"]_vars

\* C26: a packet that was decoded resets the last-activity timestamp, also
\* when samples of it were discarded by the noise floor, and is not followed
\* by stall recovery.
C26_PacketResetsStallTimer ==
    discarded # {} => (elapsed = 0 /\ tpc # "rec_stop")

\* C27: the read loop ends only after stop() was called: whatever raises
\* inside it (a read, a write, the flush of the stall recovery), the thread
\* stays alive while the driver is running.
C27_LoopSurvivesErrors ==
    thread = "dead" => ~running

\* the flush of a stall recovery raised on the open port, the recovery was
\* left after scan-disable and the pause, and the loop is back at its top
\* with the driver still running
C27_Witness ==
    /\ thread = "alive" /\ running /\ ser = "open"
    /\ tpc = "top"
    /\ recLog = <<"disable", "pause">>
    /\ lastCtl = "disable"

\* C28: every key of the live scan map is a degree bucket in 0..359,
\* whatever bytes the decoder received, angle codes of 360 degrees or more
\* included.
C28_BucketsInCircle ==
    \A a \in DOMAIN latest_scan : 0 <= a /\ a < FullCircle

\* the integer degree nearest to the angle of point p, on the circle
Nearest(p) == ((2 * p.num + p.den) \div (2 * p.den)) % FullCircle

\* the live map that results from storing each point of pts, in order,
\* under the nearest degree: the last point of a bucket is the one kept
StoredRounded(pts) ==
    LET B == {Nearest(pts[i]) : i \in DOMAIN pts}
        last(b) == CHOOSE i \in DOMAIN pts :
                     /\ Nearest(pts[i]) = b
                     /\ \A j \in DOMAIN pts : Nearest(pts[j]) = b => j <= i
    IN  [b \in B |-> pts[last(b)].dist]

\* C29: the merge stores each point of a packet under its angle rounded to
\* the nearest integer degree, and of several points of one bucket the one
\* merged last is kept.
C29_RoundedLastWriterWins ==
    (sent.kind = "whole" /\ parsed # <<>>) =>
        latest_scan = StoredRounded(parsed[1].points)

\* C31: execute_command with a kind that is none of the known kinds makes
\* no call on self.agv (no drive call, no stop call) and does not wait, in
\* both variants.
C31_UnknownKindIgnored ==
    \A t \in DOMAIN epc :
      (execs[t] > 0 /\ ecmd[t].command \notin Kinds) =>
        /\ ecalls[t] = <<>>
        /\ epc[t] = "idle"

\* DANCE with a duration of 1 s was executed on the real controller:
\* nothing was called on self.agv and the caller does not wait
C31_Witness ==
    /\ ~mock
    /\ ecmd[1] = Cmd("DANCE", 50, 1) /\ execs[1] = 1
    /\ ecalls[1] = <<>> /\ epc[1] = "idle"
    /\ execs[2] = 0
    /\ agvCalls = <<>>

\* the drive primitive of the motion each command kind names
MotionOf(kind) ==
    CASE kind = "MOVE_FORWARD"  -> "go_ahead"
      [] kind = "MOVE_BACKWARD" -> "retreat"
      [] kind = "MOVE_LEFT"     -> "pan_left"
      [] kind = "MOVE_RIGHT"    -> "pan_right"
      [] kind = "TURN_LEFT"     -> "counterclockwise_rotation"
      [] kind = "TURN_RIGHT"    -> "clockwise_rotation"
      [] kind = "STOP"          -> "stop"

\* C32: in both variants every command kind dispatches the primitive of its
\* own motion; a turn command never dispatches a strafe primitive.
C32_SameMotionInBothVariants ==
    \A t \in DOMAIN epc :
      (~mock /\ execs[t] > 0 /\ ecmd[t].command \in Kinds) =>
        /\ ecalls[t] # <<>>
        /\ ecalls[t][1] = MotionOf(ecmd[t].command)

\* the last call made on self.agv set the vehicle in motion
Moving(log) == log # <<>> /\ log[Len(log)].op # "stop"

\* C33: while the deployment client has no connection to the backend
\* (it is waiting before a retry, or about to connect again), the last
\* call on the motors is a stop: the vehicle is not left executing its
\* last motion command.
C33_StoppedWithoutConnection ==
    (cpc \in {"d_connect", "d_wait3", "d_wait1"}) => ~Moving(agvCalls)

\* C34: in every iteration of the vehicle client the snapshot is taken
\* first (the copy of the live map made before the frame is sent), nothing
\* is executed while the response is awaited, and the command handed to the
\* executor is the proposed one vetoed with the safety decision of that
\* same snapshot, whatever the live map has become in the meantime.
C34_VetoFromIterationSnapshot ==
    [][/\ (cpc = "loop" /\ cpc' = "recv") =>
            /\ snap' = latest_scan
            /\ handed' = NoCmd /\ agvCalls' = <<>>
       /\ (cpc = "recv" /\ cpc' = "recv") =>
            /\ UNCHANGED <<snap, handed, agvCalls, ecalls, execs>>
       /\ (cpc = "recv" /\ handed' # NoCmd) =>
            /\ snap' = snap
            /\ proposed' = Head(inbox).body.data
            /\ handed' = Intercept(check_safety(process_lidar_data(snap)),
                                   proposed')
            /\ ecmd'[Ctl] = handed'
            /\ execs'[Ctl] = execs[Ctl] + 1]_vars

\* a forward command was vetoed on a snapshot that showed an obstacle,
\* after the live map had moved on from that snapshot
C34_Witness ==
    /\ cpc = "loop"
    /\ proposed = Cmd("MOVE_FORWARD", 50, 1)
    /\ handed.command = "STOP"
    /\ ecalls[Ctl] = <<"stop">>
    /\ snap # latest_scan
    /\ ~check_safety(process_lidar_data(snap))

\* C35: no step of the driver (ingest, snapshot, stall recovery, stop)
\* removes a bucket from the live map; a stored distance changes only when
\* the read loop ingests a new valid reading for that bucket; and a snapshot
\* shows every bucket the live map holds.
C35_MapOnlyGrows ==
    [][/\ DOMAIN latest_scan \subseteq DOMAIN latest_scan'
       /\ \A a \in DOMAIN latest_scan :
            latest_scan'[a] # latest_scan[a] =>
              /\ tpc = "body"
              /\ latest_scan'[a] > Mm(MinValidRange)
       /\ (cpc = "m_loop" /\ cpc' = "m_print") => snap' = latest_scan]_vars

\* the map still holds its buckets after a stall recovery ran and stop()
\* closed the port
C35_Witness ==
    /\ latest_scan # EmptyScan
    /\ \E i \in DOMAIN recLog : recLog[i] = "flush"
    /\ cpc = "returned"
    /\ ser = "None" /\ ~running

\* C36: the read loop holds self.lock only while it merges the points of
\* one packet (never while it reads the serial line), a reader holds it
\* only for the copy, and so the lock is free again and again: the read
\* loop waiting for it gets it, and a reader is never shut out for good.
C36_LockHeldOnlyForMerge ==
    /\ [](lock = "loop" => (tpc = "merge" /\ packet # <<>>))
    /\ []<>(lock = "free")
    /\ ((tpc = "lock") ~> (tpc = "merge"))

\* the read loop is in the middle of a merge, holding the lock, while a
\* reader holds a copy it was handed before
C36_Witness ==
    /\ lock = "loop" /\ tpc = "merge"
    /\ pending # <<>> /\ Len(pending) < Len(packet)
    /\ \E c \in Readers : copies[c].held

\* the bytes hold 0xAA 0x55 side by side somewhere
HasHeader(bytes) ==
    \E i \in 1..(Len(bytes) - 1) : bytes[i] = 170 /\ bytes[i + 1] = 85

\* what the decoder owes for frame f
Decoded(f) == Points(ParsePacket(f.ls, f.fsa, f.lsa, f.raw_data))

\* C37: whatever bytes without a header precede a frame (a 0xAA right
\* before the frame's own AA 55, or 0xAA followed by another byte and then
\* 0x55, included), the header search finds the frame's header: the first
\* call returns the frame's points and consumes the stream to its end.
C37_HeaderSearchRestarts ==
    (sent.kind = "junk" /\ parsed # <<>> /\ ~HasHeader(sent.prefix)) =>
      /\ parsed = <<Decoded(sent.frame)>>
      /\ rx = <<>>

\* the frame came right after AA, and after AA 07 55
C37_Witness ==
    /\ sent.kind = "junk"
    /\ sent.prefix \in {<<170>>, <<170, 170>>, <<170, 7, 85>>}
    /\ sent.frame.ls = 1
    /\ parsed = <<Decoded(sent.frame)>>
    /\ parsed[1].points # <<>>

\* the number of bytes of a frame: 2 header, 2 info, 6 angle and checksum
\* bytes, 2 for each sample
FrameLen(f) == 10 + 2 * f.ls

RECURSIVE TrainLen(_)
TrainLen(frames) ==
    IF frames = <<>> THEN 0
    ELSE FrameLen(Head(frames)) + TrainLen(Tail(frames))

\* C38: on a stream of k well-formed frames back to back, the j-th call of
\* the decoder returns the points of the j-th frame (never None) and
\* consumes exactly that frame's 10 + 2n bytes, so that k calls use up the
\* stream; this holds also when sample bytes read AA 55 or 55 AA.
C38_FramesBackToBack ==
    sent.kind = "train" =>
      /\ Len(parsed) <= Len(sent.frames)
      /\ \A j \in DOMAIN parsed :
           /\ parsed[j] = Decoded(sent.frames[j])
           /\ parsed[j].kind = "points"
      /\ Len(rx) = TrainLen(sent.frames)
                     - TrainLen(SubSeq(sent.frames, 1, Len(parsed)))
      /\ rx = TrainBytes(SubSeq(sent.frames, Len(parsed) + 1,
                                Len(sent.frames)))

\* two frames were decoded, the first of which ends in the sample bytes
\* 55 AA and carries AA 55 as a sample before that
C38_Witness ==
    /\ sent.kind = "train"
    /\ Len(sent.frames) = 2 /\ Len(parsed) = 2
    /\ sent.frames[1].raw_data = <<21930, 43605>>
    /\ sent.frames[2].ls = 1
    /\ rx = <<>>

\* C39: the CS field is no gate: whatever its value the frame is decoded,
\* and to the same points as with any other value.
C39_ChecksumIgnored ==
    (sent.kind = "cs" /\ parsed # <<>>) =>
      /\ parsed = <<Decoded(sent.frame)>>
      /\ parsed[1].points # <<>>
      /\ \A cs \in CheckSums :
           ParseNextPacket(FrameBytesCS(sent.frame, cs)).ret = parsed[1]
      /\ rx = <<>>

\* a frame with a CS field of FFFF was decoded
C39_Witness ==
    /\ sent.kind = "cs" /\ sent.cs = 65535
    /\ sent.frame.ls = 2
    /\ parsed = <<Decoded(sent.frame)>>
    /\ Len(parsed[1].points) = 2

====
